---- MODULE Spec2Model ----
(***************************************************************************)
(* Model of the Artemis firmware uploader                                  *)
(* (tools/artemis_firmware_uploader_gui.py).                               *)
(*                                                                         *)
(* SVL part: upload_main / phase_setup / phase_bootload / wait_for_packet  *)
(* / send_packet, with the device on the other end of the serial line as   *)
(* a nondeterministic source of replies (specification SpecSVL, and        *)
(* FairSpecSVL for termination).                                           *)
(*                                                                         *)
(* Wired-update part: update_main / updater / connect_device /             *)
(* send_ackd_command / send_command (specification SpecWU).                *)
(*                                                                         *)
(* Image bytes are identified with their offset in the file: a payload is  *)
(* the half-open interval [lo, hi) of image offsets it carries, as Python  *)
(* slicing selects it (the empty payload is lo = hi = 0).                  *)
(***************************************************************************)
EXTENDS Integers, Sequences, FiniteSets, TLC

(***************************************************************************)
(* Bounds of the model                                                     *)
(***************************************************************************)
\* largest image, in frames
MaxFrames == 2
\* largest wired-update blob, in updates of maxUpdateSize bytes
MaxUpdates == 2
\* most full-length replies of an unexpected message type the device gives
\* in one connection attempt
MaxOddReplies == 1
\* most chunks blob2wired_process splits a file into
MaxChunks == 3

(***************************************************************************)
(* Program constants                                                       *)
(***************************************************************************)
SVL_CMD_VER   == 1
SVL_CMD_BL    == 2
SVL_CMD_NEXT  == 3
SVL_CMD_FRAME == 4
SVL_CMD_RETRY == 5
SVL_CMD_DONE  == 6

\* frame_size = 512*4
frame_size == 2048
resend_max == 4
num_tries  == 3
\* b'U'
baud_detect_byte == 85

AM_SECBOOT_WIRED_MSGTYPE_HELLO   == 0
AM_SECBOOT_WIRED_MSGTYPE_STATUS  == 1
AM_SECBOOT_WIRED_MSGTYPE_OTADESC == 2
AM_SECBOOT_WIRED_MSGTYPE_UPDATE  == 3
AM_SECBOOT_WIRED_MSGTYPE_ABORT   == 4
AM_SECBOOT_WIRED_MSGTYPE_RESET   == 6
AM_SECBOOT_WIRED_MSGTYPE_ACK     == 7
AM_SECBOOT_WIRED_MSGTYPE_DATA    == 8
\* the status codes are those of am_defines.py; the file uses the name
\* AM_SECBOOT_WIRED_ACK_STATUS_SUCCESS without defining it
AM_SECBOOT_WIRED_ACK_STATUS_SUCCESS      == 0
AM_SECBOOT_WIRED_ACK_STATUS_INVALID_ADDR == 7
\* 0x2000
FLASH_PAGE_SIZE == 8192
AM_MAX_UART_MSG_SIZE == 8192
\* AM_WU_IMAGEHDR_OFFSET_KEK + AM_KEK_SIZE + 16
AM_WU_IMAGEHDR_SIZE == 96
\* "while self.loadTries < 3"
max_load_tries == 3
\* response lengths asked for by connect_device and send_ackd_command
hello_response_len == 88
ack_response_len == 20
\* 0xFFFFFFFF, the OTA descriptor address that means "no descriptor", as a
\* signed 32-bit word
no_otadesc == -1
\* 0xFE000
default_otadesc == 1040384
\* 0x20000
default_load_address_blob == 131072

VARIABLES
    pc,            \* position of upload_main
    total_len,     \* len(application), the firmware file's size
    tries,         \* iterations of "for _ in range(num_tries)" begun
    ser_open,      \* self.ser is an open port
    raised,        \* the "except:" clause of upload_main ran
    total_frames,  \* phase_bootload locals
    curr_frame,
    resend_count,
    bl_done,
    bl_failed,
    wire,          \* bytes/packets written and packets read in this attempt
    results,       \* bl_failed of every attempt that ran to its end
    wu_pc,         \* position of update_main / updater / connect_device
    loadTries,     \* self.loadTries
    loadSuccess,   \* self.loadSuccess
    wu_open,       \* the port is open (inside a with statement of updater)
    abort,         \* self.abort
    otadescaddr,   \* the OTA descriptor address (self.otadesc)
    reset,         \* the reset option (self.reset_after)
    split,         \* the split size
    totalLen,      \* len(application), the wired-update blob's size
    numUpdates,    \* connect_device locals
    upd_start,
    upd_end,
    applen,
    data_x,
    wu_wire,       \* messages sent in this attempt, each with its reply
    wu_result,     \* how the last updater call ended
    wu_attempts,   \* connect_device calls made by this updater call
    load_address_blob, \* self.load_address_blob
    uploadbinfile, \* self.uploadbinfile names a file blob2wired has written
    wired_blob,    \* the lengths of the chunks blob2wired_process wrote to it
    ib_pc,         \* position in bin2blob_process / blob2wired_process
    ib_opt,        \* the options and the file the image builder works on
    ib_hdr,        \* hdr_binarray of bin2blob_process, word by word
    ib_w1,         \* what the CRC32 stored as w1 was taken over
    ib_app_length, \* blob2wired_process locals
    ib_start,
    ib_loadaddress,
    ib_out,        \* the chunks blob2wired_process has written
    pk_pc,         \* position in the packet layer (get_crc16, send_packet,
                   \* wait_for_packet)
    pk_frame,      \* the bytes get_crc16 was called on
    pk_crc,        \* what it returned
    pk_residue,    \* get_crc16 of the bytes followed by their CRC
    pk_cmd,        \* the arguments of send_packet
    pk_data,
    pk_wire,       \* the bytes send_packet wrote to the port
    pk_read,       \* how many of them the reads of wait_for_packet get
    pk_packet,     \* the packet wait_for_packet returned
    wk_pc,         \* position of the worker thread (AUxWorker.process_loop)
    wk_shutdown,   \* AUxWorker._shutdown
    wk_queue,      \* AUxWorker._queue
    wk_job,        \* process_loop's job
    wk_status,     \* process_loop's status
    wk_printed,    \* the running job has printed a line
    wk_trace,      \* calls of cb_function, and the starts and ends of run_job
    wk_added,      \* the jobs put in the queue, in the order of the puts
    next_job_id,   \* AxJob._next_job_id
    gui_disabled,  \* the two buttons are disabled
    gui_signals,   \* sig_finished emitted and not yet handled
    gui_press,     \* the last button press and what it found
    gui_closed     \* closeEvent has run

svl_vars == <<pc, total_len, tries, ser_open, raised, total_frames,
              curr_frame, resend_count, bl_done, bl_failed, wire, results>>

wu_vars == <<wu_pc, loadTries, loadSuccess, wu_open, abort, otadescaddr,
             reset, split, totalLen, numUpdates, upd_start, upd_end, applen,
             data_x, wu_wire, wu_result, wu_attempts, load_address_blob,
             uploadbinfile, wired_blob>>

ib_vars == <<ib_pc, ib_opt, ib_hdr, ib_w1, ib_app_length, ib_start,
             ib_loadaddress, ib_out>>

pk_vars == <<pk_pc, pk_frame, pk_crc, pk_residue, pk_cmd, pk_data, pk_wire,
             pk_read, pk_packet>>

wk_vars == <<wk_pc, wk_shutdown, wk_queue, wk_job, wk_status, wk_printed,
             wk_trace, wk_added, next_job_id, gui_disabled, gui_signals,
             gui_press, gui_closed>>

not_svl_vars == <<wu_vars, ib_vars, pk_vars, wk_vars>>
not_wu_vars == <<svl_vars, ib_vars, pk_vars, wk_vars>>
not_ib_vars == <<svl_vars, wu_vars, pk_vars, wk_vars>>
not_pk_vars == <<svl_vars, wu_vars, ib_vars, wk_vars>>
not_wk_vars == <<svl_vars, wu_vars, ib_vars, pk_vars>>

vars == <<svl_vars, wu_vars, ib_vars, pk_vars, wk_vars>>

(***************************************************************************)
(* Helpers                                                                 *)
(***************************************************************************)
Max(a, b) == IF a > b THEN a ELSE b
Min(a, b) == IF a < b THEN a ELSE b

\* math.ceil(a / b) for the naturals used here
Ceil(a, b) == (a + b - 1) \div b

\* Python's seq[a:b] on a sequence of length n, as the interval of offsets
\* it selects; negative indices count from the end, everything is clamped.
PyIndex(n, x) == IF x < 0 THEN Max(x + n, 0) ELSE Min(x, n)
PySlice(n, a, b) ==
    LET lo == PyIndex(n, a)
        hi == PyIndex(n, b)
    IN  IF hi > lo THEN [lo |-> lo, hi |-> hi] ELSE [lo |-> 0, hi |-> 0]

(***************************************************************************)
(* What the serial line delivers to one wait_for_packet call:              *)
(*   n    number of length bytes that arrived before the read timeout      *)
(*   len  the 16-bit length they encode                                    *)
(*   got  number of payload bytes that arrived before the read timeout     *)
(*   cmd  first payload byte                                               *)
(*   crc  get_crc16 of the payload (0 = no error, 1 stands for any other)  *)
(***************************************************************************)
ReplyCmds == {SVL_CMD_VER, SVL_CMD_NEXT, SVL_CMD_RETRY}

DeviceReplies ==
    {[n |-> 0, len |-> 0, got |-> 0, cmd |-> 0, crc |-> 0],
     [n |-> 2, len |-> 0, got |-> 0, cmd |-> 0, crc |-> 0],
     [n |-> 2, len |-> 3, got |-> 1, cmd |-> SVL_CMD_NEXT, crc |-> 0]}
    \cup
    {[n |-> 2, len |-> 3, got |-> 3, cmd |-> c, crc |-> r] :
        c \in ReplyCmds, r \in {0, 1}}

\* to the 0x55 byte the device answers, if at all, with a version packet
SetupReplies ==
    {r \in DeviceReplies : r.got # r.len \/ r.len = 0 \/ r.cmd = SVL_CMD_VER}

\* the dict returned by wait_for_packet (its len and data keys are not
\* read by any caller's control flow and are left out)
wait_for_packet(reply) ==
    IF reply.n < 2 THEN [cmd |-> 0, crc |-> 1, timeout |-> 1]
    ELSE IF reply.len = 0 THEN [cmd |-> 0, crc |-> 1, timeout |-> 1]
    ELSE IF reply.got # reply.len THEN [cmd |-> 0, crc |-> 1, timeout |-> 1]
    ELSE [cmd |-> reply.cmd, crc |-> reply.crc, timeout |-> 0]

(***************************************************************************)
(* Entries of the wire log                                                 *)
(***************************************************************************)
Rx(phase, packet) ==
    [dir |-> "rx", phase |-> phase, cmd |-> packet.cmd,
     lo |-> 0, hi |-> 0, crc |-> packet.crc, timeout |-> packet.timeout]

\* ser.write(baud_detect_byte)
TxByte(phase, b) ==
    [dir |-> "txbyte", phase |-> phase, cmd |-> b,
     lo |-> 0, hi |-> 0, crc |-> 0, timeout |-> 0]

\* the packet send_packet(cmd, data) writes, data being image[lo, hi)
send_packet(phase, cmd, data) ==
    [dir |-> "tx", phase |-> phase, cmd |-> cmd,
     lo |-> data.lo, hi |-> data.hi, crc |-> 0, timeout |-> 0]

NoData == [lo |-> 0, hi |-> 0]

(***************************************************************************)
(* phase_bootload, one pass of its while loop                              *)
(***************************************************************************)
\* mutant: the slice starts one frame late
frame_data_late(cf, len) ==
    PySlice(len, cf * frame_size, (cf + 1) * frame_size)

\* application[((curr_frame-1)*frame_size):((curr_frame-1+1)*frame_size)]
frame_data(cf, len) ==
    PySlice(len, (cf - 1) * frame_size, (cf - 1 + 1) * frame_size)

\* mutant: the cap is tested with > instead of >=
on_cmd_cap_late(packet, cf, rc) ==
    IF packet.cmd = SVL_CMD_NEXT
    THEN [curr_frame |-> cf + 1, resend_count |-> 0, fail |-> FALSE]
    ELSE IF packet.cmd = SVL_CMD_RETRY
    THEN [curr_frame |-> cf, resend_count |-> rc + 1,
          fail |-> (rc + 1 > resend_max)]
    ELSE [curr_frame |-> cf, resend_count |-> rc, fail |-> TRUE]

\* mutant: NEXT does not reset resend_count
on_cmd_no_reset(packet, cf, rc) ==
    IF packet.cmd = SVL_CMD_NEXT
    THEN [curr_frame |-> cf + 1, resend_count |-> rc, fail |-> FALSE]
    ELSE IF packet.cmd = SVL_CMD_RETRY
    THEN [curr_frame |-> cf, resend_count |-> rc + 1,
          fail |-> (rc + 1 >= resend_max)]
    ELSE [curr_frame |-> cf, resend_count |-> rc, fail |-> TRUE]

\* mutant: a RETRY is never the last one
on_cmd_no_cap(packet, cf, rc) ==
    IF packet.cmd = SVL_CMD_NEXT
    THEN [curr_frame |-> cf + 1, resend_count |-> 0, fail |-> FALSE]
    ELSE IF packet.cmd = SVL_CMD_RETRY
    THEN [curr_frame |-> cf, resend_count |-> rc + 1, fail |-> FALSE]
    ELSE [curr_frame |-> cf, resend_count |-> rc, fail |-> TRUE]

\* mutant: a RETRY moves on to the next frame
on_cmd_retry_advances(packet, cf, rc) ==
    IF packet.cmd = SVL_CMD_NEXT
    THEN [curr_frame |-> cf + 1, resend_count |-> 0, fail |-> FALSE]
    ELSE IF packet.cmd = SVL_CMD_RETRY
    THEN [curr_frame |-> cf + 1, resend_count |-> rc + 1,
          fail |-> (rc + 1 >= resend_max)]
    ELSE [curr_frame |-> cf, resend_count |-> rc, fail |-> TRUE]

\* the if / elif / else on packet['cmd']: the new values of curr_frame,
\* resend_count and whether the branch sets bl_failed and bl_done
on_cmd(packet, cf, rc) ==
    IF packet.cmd = SVL_CMD_NEXT
    THEN [curr_frame |-> cf + 1, resend_count |-> 0, fail |-> FALSE]
    ELSE IF packet.cmd = SVL_CMD_RETRY
    THEN [curr_frame |-> cf, resend_count |-> rc + 1,
          fail |-> (rc + 1 >= resend_max)]
    ELSE [curr_frame |-> cf, resend_count |-> rc, fail |-> TRUE]

\* mutant: the timeout and the CRC of the packet are not looked at
receive_error_ignored(packet) == FALSE

\* "if(packet['timeout'] or packet['crc'])"
receive_error(packet) == packet.timeout # 0 \/ packet.crc # 0

\* "if( curr_frame <= total_frames )": a frame is sent, otherwise DONE
frame_pending(cf, tf) == cf <= tf

\* the body of the while loop for one received packet
bootload_pass(packet) ==
    LET r == on_cmd(packet, curr_frame, resend_count)
        failed == receive_error(packet) \/ r.fail
        more == frame_pending(r.curr_frame, total_frames)
    IN  /\ curr_frame' = r.curr_frame
        /\ resend_count' = r.resend_count
        /\ bl_failed' = failed
        /\ bl_done' = (failed \/ ~more)
        /\ wire' = wire \o
              << Rx("bootload", packet),
                 IF more
                 THEN send_packet("bootload", SVL_CMD_FRAME,
                                  frame_data(r.curr_frame, total_len))
                 ELSE send_packet("bootload", SVL_CMD_DONE, NoData) >>

(***************************************************************************)
(* Actions                                                                 *)
(***************************************************************************)
ImageLens ==
    {0} \cup {(n - 1) * frame_size + r : n \in 1..MaxFrames, r \in {1, frame_size}}

\* on_upload_btn_pressed -> upload_main, up to the for loop; the firmware
\* file is whatever the user selected
upload_main ==
    /\ UNCHANGED not_svl_vars
    /\ pc \in {"idle", "returned"}
    /\ \E len \in ImageLens : total_len' = len
    /\ pc' = "for"
    /\ tries' = 0
    /\ raised' = FALSE
    /\ ser_open' = FALSE
    /\ wire' = << >>
    /\ results' = << >>
    /\ total_frames' = 0
    /\ curr_frame' = 0
    /\ resend_count' = 0
    /\ bl_done' = FALSE
    /\ bl_failed' = FALSE

\* mutant: the exception is caught inside the for loop
except_pc_in_loop(n) == IF n < num_tries THEN "for" ELSE "returned"

\* where an exception raised in the for loop lands: the try statement
\* encloses the whole loop, its except clause falls through to the end
except_pc(n) == "returned"

\* one iteration of "for _ in range(num_tries)" up to the with statement:
\* serial.Serial(...) opens the port, or raises and the except clause and
\* the final close end upload_main
open_port ==
    /\ UNCHANGED not_svl_vars
    /\ pc = "for"
    /\ tries < num_tries
    /\ tries' = tries + 1
    /\ wire' = << >>
    /\ \E ok \in BOOLEAN :
          IF ok
          THEN /\ ser_open' = TRUE
               /\ pc' = "phase_setup"
               /\ UNCHANGED raised
          ELSE /\ ser_open' = FALSE
               /\ raised' = TRUE
               /\ pc' = except_pc(tries + 1)
    /\ UNCHANGED <<total_len, total_frames, curr_frame, resend_count,
                   bl_done, bl_failed, results>>

\* mutant: the CRC of the reply is not looked at
setup_ok_no_crc(packet) == packet.timeout = 0

\* a reply passes phase_setup when it is no timeout and has no CRC error
setup_ok(packet) == packet.timeout = 0 /\ packet.crc = 0

phase_setup ==
    /\ UNCHANGED not_svl_vars
    /\ pc = "phase_setup"
    /\ \E reply \in SetupReplies :
          LET packet == wait_for_packet(reply)
          IN  wire' = wire \o
                 << TxByte("setup", baud_detect_byte), Rx("setup", packet) >> \o
                 (IF setup_ok(packet)
                  THEN << send_packet("setup", SVL_CMD_BL, NoData) >>
                  ELSE << >>)
    /\ pc' = "phase_bootload"
    /\ UNCHANGED <<total_len, tries, ser_open, raised, total_frames,
                   curr_frame, resend_count, bl_done, bl_failed, results>>

\* phase_bootload up to its while loop
phase_bootload ==
    /\ UNCHANGED not_svl_vars
    /\ pc = "phase_bootload"
    /\ total_frames' = Ceil(total_len, frame_size)
    /\ curr_frame' = 0
    /\ resend_count' = 0
    /\ bl_done' = FALSE
    /\ bl_failed' = FALSE
    /\ pc' = "while"
    /\ UNCHANGED <<total_len, tries, ser_open, raised, wire, results>>

\* one pass of "while((not bl_done) and (not bl_failed))"
bootload_loop ==
    /\ UNCHANGED not_svl_vars
    /\ pc = "while"
    /\ ~bl_done /\ ~bl_failed
    /\ \E reply \in DeviceReplies : bootload_pass(wait_for_packet(reply))
    /\ UNCHANGED <<pc, total_len, tries, ser_open, raised, total_frames, results>>

\* mutant: the break is missing
next_try_no_break(failed, n) == IF n < num_tries THEN "for" ELSE "returned"

\* "if( bl_failed == False ): break", else the next iteration, if any
next_try(failed, n) ==
    IF failed = FALSE THEN "returned"
    ELSE IF n < num_tries THEN "for" ELSE "returned"

\* the while loop is over: phase_bootload returns bl_failed, the with
\* statement closes the port, and the for loop breaks or goes on
attempt_end ==
    /\ UNCHANGED not_svl_vars
    /\ pc = "while"
    /\ bl_done \/ bl_failed
    /\ results' = Append(results, bl_failed)
    /\ ser_open' = FALSE
    /\ pc' = next_try(bl_failed, tries)
    /\ UNCHANGED <<total_len, tries, raised, total_frames, curr_frame,
                   resend_count, bl_done, bl_failed, wire>>

\* ------------------------------------------------------------------
\* Image builder: bin2blob_process and blob2wired_process
\* ------------------------------------------------------------------

\* The header words are 32 bits wide and Python's integers are unbounded:
\* a word is modelled as the set of the positions of its 1 bits, so that
\* | is union, & is intersection and << moves the positions up.
Bits(n) == {i \in 0..30 : (n \div (2 ^ i)) % 2 = 1}
Shl(w, k) == {i + k : i \in w}
Shr(w, k) == {i - k : i \in {j \in w : j >= k}}
BitOr(a, b) == a \cup b
BitAnd(a, b) == a \cap b
\* the word 0xHHHHLLLL, given as its two halves
Hex32(hi, lo) == BitOr(Shl(Bits(hi), 16), Bits(lo))

AM_KEK_SIZE == 16
AM_CRC_SIZE == 4
AM_HMAC_SIG_SIZE == 32
AM_IMAGE_MAGIC_MAIN == 192
AM_IMAGE_MAGIC_CHILD == 204
AM_IMAGE_MAGIC_NONSECURE == 203
AM_IMAGE_MAGIC_INFO0 == 207
AM_IMAGE_MAGIC_CUSTPATCH == 193
AM_SECBOOT_WIRED_IMAGETYPE_NONSECURE == 6
AM_SECBOOT_WIRED_IMAGETYPE_INFO0_NOOTA == 32
AM_IMAGEHDR_SIZE_MAIN == 256
AM_IMAGEHDR_SIZE_AUX == 112 + AM_KEK_SIZE
AM_IMAGEHDR_OFFSET_CRC == 4
AM_IMAGEHDR_OFFSET_KEK == 64
AM_IMAGEHDR_OFFSET_SIGCLR == AM_IMAGEHDR_OFFSET_KEK + AM_KEK_SIZE
AM_IMAGEHDR_START_CRC == AM_IMAGEHDR_OFFSET_CRC + AM_CRC_SIZE
AM_IMAGEHDR_START_HMAC == AM_IMAGEHDR_OFFSET_SIGCLR + AM_HMAC_SIG_SIZE
AM_IMAGEHDR_OFFSET_ADDR == AM_IMAGEHDR_START_HMAC
AM_IMAGEHDR_OFFSET_VERKEY == AM_IMAGEHDR_OFFSET_ADDR + 4
AM_IMAGEHDR_OFFSET_CHILDPTR == AM_IMAGEHDR_OFFSET_VERKEY + 4
AM_WU_IMAGEHDR_OFFSET_KEK == 64
AM_WU_IMAGEHDR_OFFSET_IMAGETYPE == AM_WU_IMAGEHDR_OFFSET_KEK + AM_KEK_SIZE
AM_WU_IMAGEHDR_OFFSET_OPTIONS == AM_WU_IMAGEHDR_OFFSET_IMAGETYPE + 1
AM_WU_IMAGEHDR_OFFSET_KEY == AM_WU_IMAGEHDR_OFFSET_IMAGETYPE + 4
AM_WU_IMAGEHDR_OFFSET_ADDR == AM_WU_IMAGEHDR_OFFSET_KEY + 4
AM_WU_IMAGEHDR_OFFSET_SIZE == AM_WU_IMAGEHDR_OFFSET_ADDR + 4
AM_WU_IMAGEHDR_START_ENCRYPT == AM_WU_IMAGEHDR_OFFSET_KEK + AM_KEK_SIZE
INFO_SIZE_BYTES == 8 * 1024
INFO_KEY == Hex32(55444, 57502)
FLASH_KEY == Hex32(4660, 17185)
MAX_DOWNLOAD_SIZE == 294912
default_load_address_wired == 49152
\* hex(0xFFFFFFFF), the value of self.child0 and self.child1
default_child == Hex32(65535, 65535)

\* bin2blob_process: "if (self.load_address_blob & 0x3): ... return"
bin2blob_rejects(addr) == addr % 4 # 0

\* blob2wired_process: "if ((self.split & (self.FLASH_PAGE_SIZE - 1)) != 0):
\* ... return", before uploadbinfile is set and the file written
blob2wired_rejects(maxSize) == maxSize % FLASH_PAGE_SIZE # 0

\* the options as __init__ sets them; app is len() of the file appFile
\* names
default_options ==
    [app |-> 4, magic_num |-> AM_IMAGE_MAGIC_NONSECURE,
     load_address_blob |-> default_load_address_blob,
     crcI |-> 1, crcB |-> 0, authI |-> 0, authB |-> 0, protection |-> 0,
     authkey |-> 8, kek |-> 8, version |-> 0, erasePrev |-> 0,
     child0 |-> default_child, child1 |-> default_child,
     authalgo |-> 0, encalgo |-> 0,
     split |-> MAX_DOWNLOAD_SIZE,
     image_type |-> AM_SECBOOT_WIRED_IMAGETYPE_NONSECURE,
     load_address_wired |-> default_load_address_wired, options |-> 1]

\* len() of what pad_to_block_size(text, block_size, 0) returns: the text
\* padded with zeros to a multiple of block_size
pad_to_block_size(text_length, block_size) ==
    Ceil(text_length, block_size) * block_size

\* a bytearray of n zero bytes, as the words at offsets 0, 4, 8, ...
zero_words(n) == [off \in {4 * k : k \in 0..((n \div 4) - 1)} |-> {}]

fill_word(barray, offset, w) == [barray EXCEPT ![offset] = w]

\* bin2blob_process, up to its returns before any word is built
hdr_length_of(magic_num) ==
    IF magic_num = AM_IMAGE_MAGIC_MAIN
    THEN AM_IMAGEHDR_SIZE_MAIN
    ELSE IF magic_num \in {AM_IMAGE_MAGIC_CHILD, AM_IMAGE_MAGIC_CUSTPATCH,
                           AM_IMAGE_MAGIC_NONSECURE, AM_IMAGE_MAGIC_INFO0}
    THEN AM_IMAGEHDR_SIZE_AUX
    ELSE 0

bin2blob_returns_early(o) ==
    \/ hdr_length_of(o.magic_num) = 0
    \/ bin2blob_rejects(o.load_address_blob)
    \/ /\ o.magic_num = AM_IMAGE_MAGIC_INFO0
       /\ \/ o.app % 4 # 0
          \/ o.load_address_blob + o.app > INFO_SIZE_BYTES

w0_of(magic_num, encVal, blobLen) ==
    BitOr(BitOr(Shl(Bits(magic_num), 24),
                Shl(BitAnd(Bits(encVal), Bits(1)), 23)),
          Bits(blobLen))

securityVal_none(authI, crcI, authB, crcB) == {}

securityVal_of(authI, crcI, authB, crcB) ==
    BitOr(BitOr(Shl(BitOr(Shl(Bits(authI), 1), Bits(crcI)), 4),
                Shl(Bits(authB), 1)),
          Bits(crcB))

key_nibbles_none(authalgo, authKeyIdx, encalgo, encKeyIdx) == {}

key_nibbles(authalgo, authKeyIdx, encalgo, encKeyIdx) ==
    BitOr(BitOr(BitAnd(Bits(authalgo), Bits(15)),
                BitAnd(Shl(Bits(authKeyIdx), 4), Bits(240))),
          BitOr(BitAnd(Shl(Bits(encalgo), 8), Bits(3840)),
                BitAnd(Shl(Bits(encKeyIdx), 12), Bits(61440))))

w2_of(o) ==
    BitOr(BitAnd(Shl(securityVal_of(o.authI, o.crcI, o.authB, o.crcB), 24),
                 Hex32(65280, 0)),
          key_nibbles(o.authalgo, o.authkey, o.encalgo, o.kek))

addrWord_of(o) ==
    IF o.magic_num = AM_IMAGE_MAGIC_INFO0
    THEN BitOr(Shl(Shr(Bits(o.app), 2), 16),
               BitAnd(Shr(Bits(o.load_address_blob), 2), Bits(65535)))
    ELSE BitOr(Bits(o.load_address_blob),
               BitAnd(Bits(o.protection), Bits(3)))

versionKeyWord_of(o) ==
    IF o.magic_num = AM_IMAGE_MAGIC_INFO0
    THEN INFO_KEY
    ELSE BitOr(BitAnd(Bits(o.version), Bits(32767)),
               Shl(BitAnd(Bits(o.erasePrev), Bits(1)), 15))

\* hdr_binarray once every fill_word but that of w1 is done
bin2blob_header(o) ==
    LET hdr_length == hdr_length_of(o.magic_num)
        app_length == pad_to_block_size(o.app, 4)
        h0 == zero_words(hdr_length)
        h1 == fill_word(h0, 0, w0_of(o.magic_num, 0, hdr_length + app_length))
        h2 == fill_word(h1, 8, w2_of(o))
        h3 == fill_word(h2, AM_IMAGEHDR_OFFSET_ADDR, addrWord_of(o))
        h4 == fill_word(h3, AM_IMAGEHDR_OFFSET_VERKEY, versionKeyWord_of(o))
        h5 == fill_word(h4, AM_IMAGEHDR_OFFSET_CHILDPTR, o.child0)
    IN  fill_word(h5, AM_IMAGEHDR_OFFSET_CHILDPTR + 4, o.child1)

\* w1 = crc32(hdr_binarray[AM_IMAGEHDR_START_CRC:hdr_length] + app_binarray)
bin2blob_crc(o) ==
    [from |-> AM_IMAGEHDR_START_CRC, to |-> hdr_length_of(o.magic_num),
     app |-> pad_to_block_size(o.app, 4)]

\* the options the header is built from, tried on a small file
HeaderCases ==
    {[default_options EXCEPT !.app = a, !.magic_num = m,
         !.load_address_blob = l, !.crcI = ci, !.crcB = cb, !.authkey = ak,
         !.kek = ek, !.protection = p, !.version = v, !.erasePrev = e] :
       a \in {4, 5}, l \in {default_load_address_blob, 4096},
       m \in {AM_IMAGE_MAGIC_NONSECURE, AM_IMAGE_MAGIC_MAIN,
              AM_IMAGE_MAGIC_INFO0, 0},
       ci \in {0, 1}, cb \in {0, 1}, ak \in {0, 8}, ek \in {0, 8},
       p \in {0, 3}, v \in {0, 1}, e \in {0, 1}}

\* split sizes: multiples of the flash page size, and one that is not
MaxSizes ==
    {FLASH_PAGE_SIZE, 2 * FLASH_PAGE_SIZE, MAX_DOWNLOAD_SIZE,
     FLASH_PAGE_SIZE \div 2}

\* file sizes at and around the multiples of the split size
AppLens(maxSize) ==
    {k * maxSize + d : k \in 0..(MaxChunks - 1),
                       d \in {1, 4, maxSize - 3, maxSize}}

\* the options the split depends on, tried with files of up to MaxChunks
\* chunks
SplitCases ==
    {[default_options EXCEPT !.app = a, !.split = s, !.image_type = t,
         !.load_address_blob = l] :
       s \in MaxSizes,
       a \in UNION {AppLens(s2) : s2 \in MaxSizes \ {MAX_DOWNLOAD_SIZE}},
       t \in {AM_SECBOOT_WIRED_IMAGETYPE_NONSECURE,
              AM_SECBOOT_WIRED_IMAGETYPE_INFO0_NOOTA},
       l \in {default_load_address_blob, default_load_address_blob + 2}}

bin2blob_process ==
    /\ UNCHANGED not_ib_vars
    /\ ib_pc = "idle"
    /\ ib_opt' \in HeaderCases \cup SplitCases
    /\ IF bin2blob_returns_early(ib_opt')
       THEN ib_hdr' = << >> /\ ib_w1' = << >>
       ELSE /\ ib_hdr' = bin2blob_header(ib_opt')
            /\ ib_w1' = bin2blob_crc(ib_opt')
    /\ ib_pc' = "blob2wired"
    /\ ib_app_length' = 0
    /\ ib_start' = 0
    /\ ib_loadaddress' = 0
    /\ ib_out' = << >>

\* blob2wired_process down to "while (start < app_length)"
blob2wired_process ==
    /\ UNCHANGED not_ib_vars
    /\ ib_pc = "blob2wired"
    /\ IF blob2wired_rejects(ib_opt.split)
       THEN /\ ib_pc' = "done"
            /\ UNCHANGED <<ib_app_length, ib_start, ib_loadaddress>>
       ELSE /\ ib_pc' = "while"
            /\ ib_app_length' = pad_to_block_size(ib_opt.app, 4)
            /\ ib_start' = 0
            /\ ib_loadaddress' = ib_opt.load_address_wired
    /\ UNCHANGED <<ib_opt, ib_hdr, ib_w1, ib_out>>

chunk_end_all(start, app_length, maxSize) == app_length

chunk_end(start, app_length, maxSize) ==
    IF app_length - start > maxSize THEN start + maxSize ELSE app_length

next_loadaddress_same(loadaddress, maxSize) == loadaddress

next_loadaddress(loadaddress, maxSize) == loadaddress + maxSize

\* the header and the bytes one pass of the loop writes
wired_chunk(o, start, end, loadaddress) ==
    [addr |-> IF o.image_type = AM_SECBOOT_WIRED_IMAGETYPE_INFO0_NOOTA
              THEN Shr(Bits(loadaddress), 2)
              ELSE Bits(loadaddress),
     key |-> IF o.image_type = AM_SECBOOT_WIRED_IMAGETYPE_INFO0_NOOTA
             THEN INFO_KEY
             ELSE FLASH_KEY,
     imagetype |-> o.image_type,
     options |-> IF start = 0 THEN o.options ELSE 0,
     size |-> end - start,
     w0 |-> BitOr(BitOr(BitAnd(Bits(o.authalgo), Bits(15)),
                        BitAnd(Shl(Bits(o.authkey), 8), Bits(3840))),
                  BitOr(BitAnd(Shl(Bits(o.encalgo), 16), Hex32(15, 0)),
                        BitAnd(Shl(Bits(o.kek), 24), Hex32(3840, 0)))),
     loadaddress |-> loadaddress,
     lo |-> start, hi |-> end,
     len |-> AM_WU_IMAGEHDR_START_ENCRYPT
               + (AM_WU_IMAGEHDR_SIZE - AM_WU_IMAGEHDR_START_ENCRYPT)
               + (end - start)]

\* one pass of "while (start < app_length)"
blob2wired_chunk ==
    /\ UNCHANGED not_ib_vars
    /\ ib_pc = "while"
    /\ ib_start < ib_app_length
    /\ LET end == chunk_end(ib_start, ib_app_length, ib_opt.split)
       IN  /\ ib_out' = Append(ib_out,
                          wired_chunk(ib_opt, ib_start, end, ib_loadaddress))
           /\ ib_start' = end
    /\ ib_loadaddress' = next_loadaddress(ib_loadaddress, ib_opt.split)
    /\ UNCHANGED <<ib_pc, ib_opt, ib_hdr, ib_w1, ib_app_length>>

\* the loop is left
blob2wired_end ==
    /\ UNCHANGED not_ib_vars
    /\ ib_pc = "while"
    /\ ~(ib_start < ib_app_length)
    /\ ib_pc' = "done"
    /\ UNCHANGED <<ib_opt, ib_hdr, ib_w1, ib_app_length, ib_start,
                   ib_loadaddress, ib_out>>

\* blob2wired_process has returned: its locals are gone, the next run of
\* the builder begins with the options of __init__
blob2wired_return ==
    /\ UNCHANGED not_ib_vars
    /\ ib_pc = "done"
    /\ ib_pc' = "idle"
    /\ ib_opt' = default_options
    /\ ib_hdr' = << >>
    /\ ib_w1' = << >>
    /\ ib_app_length' = 0
    /\ ib_start' = 0
    /\ ib_loadaddress' = 0
    /\ ib_out' = << >>

\* ------------------------------------------------------------------
\* Packet layer, byte by byte: get_crc16, send_packet, wait_for_packet
\* ------------------------------------------------------------------

\* most data bytes of a packet, and most bytes of a frame after its first
MaxDataLen == 2

\* ^ and | of Python on non-negative integers
RECURSIVE Xor(_, _)
Xor(a, b) ==
    IF a = 0 THEN b
    ELSE IF b = 0 THEN a
    ELSE ((a + b) % 2) + 2 * Xor(a \div 2, b \div 2)

RECURSIVE IntOr(_, _)
IntOr(a, b) ==
    IF a = 0 THEN b
    ELSE IF b = 0 THEN a
    ELSE Max(a % 2, b % 2) + 2 * IntOr(a \div 2, b \div 2)

crcTable ==
    <<
          0, 32773, 32783,    10, 32795,    30,    20, 32785,
      32819,    54,    60, 32825,    40, 32813, 32807,    34,
      32867,   102,   108, 32873,   120, 32893, 32887,   114,
         80, 32853, 32863,    90, 32843,    78,    68, 32833,
      32963,   198,   204, 32969,   216, 32989, 32983,   210,
        240, 33013, 33023,   250, 33003,   238,   228, 32993,
        160, 32933, 32943,   170, 32955,   190,   180, 32945,
      32915,   150,   156, 32921,   136, 32909, 32903,   130,
      33155,   390,   396, 33161,   408, 33181, 33175,   402,
        432, 33205, 33215,   442, 33195,   430,   420, 33185,
        480, 33253, 33263,   490, 33275,   510,   500, 33265,
      33235,   470,   476, 33241,   456, 33229, 33223,   450,
        320, 33093, 33103,   330, 33115,   350,   340, 33105,
      33139,   374,   380, 33145,   360, 33133, 33127,   354,
      33059,   294,   300, 33065,   312, 33085, 33079,   306,
        272, 33045, 33055,   282, 33035,   270,   260, 33025,
      33539,   774,   780, 33545,   792, 33565, 33559,   786,
        816, 33589, 33599,   826, 33579,   814,   804, 33569,
        864, 33637, 33647,   874, 33659,   894,   884, 33649,
      33619,   854,   860, 33625,   840, 33613, 33607,   834,
        960, 33733, 33743,   970, 33755,   990,   980, 33745,
      33779,  1014,  1020, 33785,  1000, 33773, 33767,   994,
      33699,   934,   940, 33705,   952, 33725, 33719,   946,
        912, 33685, 33695,   922, 33675,   910,   900, 33665,
        640, 33413, 33423,   650, 33435,   670,   660, 33425,
      33459,   694,   700, 33465,   680, 33453, 33447,   674,
      33507,   742,   748, 33513,   760, 33533, 33527,   754,
        720, 33493, 33503,   730, 33483,   718,   708, 33473,
      33347,   582,   588, 33353,   600, 33373, 33367,   594,
        624, 33397, 33407,   634, 33387,   622,   612, 33377,
        544, 33317, 33327,   554, 33339,   574,   564, 33329,
      33299,   534,   540, 33305,   520, 33293, 33287,   514
    >>

\* one pass of "for ch in data" of get_crc16
crc16_step_plain(crc, ch) == Xor(crc, ch)

crc16_step(crc, ch) ==
    LET tableAddr == Xor(ch, crc \div 256)
        CRCH == Xor(crcTable[tableAddr + 1] \div 256, crc % 256)
        CRCL == crcTable[tableAddr + 1] % 256
    IN  IntOr(CRCH * 256, CRCL)

RECURSIVE crc16_from(_, _, _)
crc16_from(crc, data, i) ==
    IF i > Len(data) THEN crc
    ELSE crc16_from(crc16_step(crc, data[i]), data, i + 1)

get_crc16(data) == crc16_from(0, data, 1)

\* n.to_bytes(2, 'big') and int.from_bytes(b, byteorder='big')
to_bytes_little(n) == <<n % 256, n \div 256>>

to_bytes_2_big(n) == <<n \div 256, n % 256>>

from_bytes_little(b) == b[1] + b[2] * 256

from_bytes_big(b) == b[1] * 256 + b[2]

\* the two ser.write calls of send_packet(cmd, data)
send_packet_bytes(cmd, data) ==
    LET num_bytes == 3 + Len(data)
        payload == <<cmd>> \o data
        crc == get_crc16(payload)
    IN  to_bytes_2_big(num_bytes) \o (payload \o to_bytes_2_big(crc))

\* packet = {'len':0, 'cmd':0, 'data':0, 'crc':1, 'timeout':1}
no_packet == [len |-> 0, cmd |-> 0, data |-> 0, crc |-> 1, timeout |-> 1]

\* the packet wait_for_packet returns when its reads get the bytes of
\* stream and then time out
wait_for_packet_from(stream) ==
    LET n == SubSeq(stream, 1, Min(2, Len(stream)))
    IN  IF Len(n) < 2 THEN no_packet
        ELSE LET len == from_bytes_big(n)
                 payload == SubSeq(stream, 3, Min(2 + len, Len(stream)))
             IN  IF len = 0 THEN [no_packet EXCEPT !.len = len]
                 ELSE IF Len(payload) # len
                 THEN [no_packet EXCEPT !.len = len]
                 ELSE [len |-> len,
                       timeout |-> 0,
                       cmd |-> payload[1],
                       data |-> SubSeq(payload, 2, len - 2),
                       crc |-> get_crc16(payload)]

\* byte values tried in the longer sequences
ByteVals == {0, 1, 2, 85, 128, 255}

RECURSIVE SeqsUpTo(_, _)
SeqsUpTo(S, n) ==
    IF n = 0 THEN {<< >>}
    ELSE LET shorter == SeqsUpTo(S, n - 1)
         IN  shorter \cup {Append(q, b) : q \in shorter, b \in S}

\* frames: every single byte, every byte followed by bytes of ByteVals
Frames ==
    {<<b>> \o q : b \in 0..255, q \in SeqsUpTo(ByteVals, MaxDataLen)}
    \cup {<< >>}

PacketCmds ==
    {SVL_CMD_VER, SVL_CMD_BL, SVL_CMD_NEXT, SVL_CMD_FRAME, SVL_CMD_RETRY,
     SVL_CMD_DONE, 0, 255}

PacketData == SeqsUpTo(ByteVals, MaxDataLen)

\* get_crc16(F)
crc_of_frame ==
    /\ UNCHANGED not_pk_vars
    /\ pk_pc = "idle"
    /\ pk_frame' \in Frames
    /\ pk_crc' = get_crc16(pk_frame')
    /\ pk_pc' = "crc"
    /\ UNCHANGED <<pk_residue, pk_cmd, pk_data, pk_wire, pk_read, pk_packet>>

\* get_crc16(F + crc.to_bytes(2, 'big'))
crc_of_frame_and_crc ==
    /\ UNCHANGED not_pk_vars
    /\ pk_pc = "crc"
    /\ pk_residue' = get_crc16(pk_frame \o to_bytes_2_big(pk_crc))
    /\ pk_pc' = "residue"
    /\ UNCHANGED <<pk_frame, pk_crc, pk_cmd, pk_data, pk_wire, pk_read,
                   pk_packet>>

\* send_packet(cmd, data)
packet_sent ==
    /\ UNCHANGED not_pk_vars
    /\ pk_pc = "idle"
    /\ pk_cmd' \in PacketCmds
    /\ pk_data' \in PacketData
    /\ pk_wire' = send_packet_bytes(pk_cmd', pk_data')
    /\ pk_pc' = "sent"
    /\ UNCHANGED <<pk_frame, pk_crc, pk_residue, pk_read, pk_packet>>

\* wait_for_packet() on a port that hands back the bytes written, all of
\* them or only the first pk_read before the reads time out
packet_received ==
    /\ UNCHANGED not_pk_vars
    /\ pk_pc = "sent"
    /\ pk_read' \in 0..Len(pk_wire)
    /\ pk_packet' = wait_for_packet_from(SubSeq(pk_wire, 1, pk_read'))
    /\ pk_pc' = "received"
    /\ UNCHANGED <<pk_frame, pk_crc, pk_residue, pk_cmd, pk_data, pk_wire>>

\* the calls have returned
packet_layer_return ==
    /\ UNCHANGED not_pk_vars
    /\ pk_pc \in {"residue", "received"}
    /\ pk_pc' = "idle"
    /\ pk_frame' = << >>
    /\ pk_crc' = 0
    /\ pk_residue' = 0
    /\ pk_cmd' = 0
    /\ pk_data' = << >>
    /\ pk_wire' = << >>
    /\ pk_read' = 0
    /\ pk_packet' = no_packet

\* ------------------------------------------------------------------
\* Job worker (au_worker.py, au_action.py, au_act_*.py) and the buttons of
\* the main window (artemis_uploader.py)
\* ------------------------------------------------------------------

\* most jobs created
MaxJobs == 2

TYPE_MESSAGE == 1
TYPE_FINISHED == 2

UPLOAD_FIRMWARE == "artemis-upload-firmware"
BURN_BOOTLOADER == "artemis-burn-bootloader"

\* self._actions once MainWindow.__init__ has called add_action
registered_actions == {UPLOAD_FIRMWARE, BURN_BOOTLOADER}

\* the status of a run_job that ends without a return statement (None)
status_None == -1

no_job == [action_id |-> "", job_id |-> 0]
no_press == [btn |-> "", port |-> FALSE, file |-> FALSE]

\* an entry of wk_trace: a call of cb_function (k is "message" or
\* "finished", type its first argument) or the start or the end of run_job
Ev(k, job, val, status) ==
    [k |-> k,
     type |-> IF k = "message" THEN TYPE_MESSAGE
              ELSE IF k = "finished" THEN TYPE_FINISHED
              ELSE 0,
     action_id |-> job.action_id, job_id |-> job.job_id,
     val |-> val, status |-> status]

\* self.message(text) while job is dispatched
message(job, text) == Ev("message", job, text, 0)

\* AxJob(action_id, ...): the job takes the class's next job id
AxJob(action_id) == [action_id |-> action_id, job_id |-> next_job_id]

\* the tests of the button handlers before a job is made
press_accepts_any(port_ok, file_ok) == TRUE

press_accepts(port_ok, file_ok) == port_ok /\ file_ok

\* on_upload_btn_pressed / on_update_bootloader_btn_pressed: port_ok is
\* verify_port(self.port), file_ok is os.path.exists of the file
button_pressed(btn, action_id, port_ok, file_ok) ==
    /\ UNCHANGED not_wk_vars
    /\ ~gui_disabled
    /\ ~gui_closed
    /\ press_accepts(port_ok, file_ok) => next_job_id <= MaxJobs
    /\ gui_press' = [btn |-> btn, port |-> port_ok, file |-> file_ok]
    /\ IF press_accepts(port_ok, file_ok)
       THEN /\ wk_queue' = Append(wk_queue, AxJob(action_id))
            /\ wk_added' = Append(wk_added, AxJob(action_id))
            /\ next_job_id' = next_job_id + 1
            /\ gui_disabled' = TRUE
       ELSE UNCHANGED <<wk_queue, wk_added, next_job_id, gui_disabled>>
    /\ UNCHANGED <<wk_pc, wk_shutdown, wk_job, wk_status, wk_printed, wk_trace,
                   gui_signals, gui_closed>>

on_upload_btn_pressed ==
    \E port_ok \in BOOLEAN, file_ok \in BOOLEAN :
       button_pressed("upload", UPLOAD_FIRMWARE, port_ok, file_ok)

on_update_bootloader_btn_pressed ==
    \E port_ok \in BOOLEAN, file_ok \in BOOLEAN :
       button_pressed("bootloader", BURN_BOOTLOADER, port_ok, file_ok)

\* add_job called by any other user of the worker, at any moment, also
\* with a job for an action that is not registered
add_job ==
    /\ UNCHANGED not_wk_vars
    /\ next_job_id <= MaxJobs
    /\ \E action_id \in registered_actions \cup {"unknown"} :
          /\ wk_queue' = Append(wk_queue, AxJob(action_id))
          /\ wk_added' = Append(wk_added, AxJob(action_id))
    /\ next_job_id' = next_job_id + 1
    /\ UNCHANGED <<wk_pc, wk_shutdown, wk_job, wk_status, wk_printed, wk_trace,
                   gui_disabled, gui_signals, gui_press,
                   gui_closed>>

\* on_finished, the slot of sig_finished, in the thread of the window
on_finished ==
    /\ UNCHANGED not_wk_vars
    /\ gui_signals # << >>
    /\ gui_signals' = Tail(gui_signals)
    /\ gui_disabled' = FALSE
    /\ UNCHANGED <<wk_pc, wk_shutdown, wk_queue, wk_job, wk_status, wk_printed,
                   wk_trace, wk_added, next_job_id, gui_press,
                   gui_closed>>

\* closeEvent: self._worker.shutdown()
closeEvent ==
    /\ UNCHANGED not_wk_vars
    /\ ~gui_closed
    /\ gui_closed' = TRUE
    /\ wk_shutdown' = TRUE
    /\ UNCHANGED <<wk_pc, wk_queue, wk_job, wk_status, wk_printed, wk_trace,
                   wk_added, next_job_id, gui_disabled, gui_signals,
                   gui_press>>

\* the thread begins process_loop: "self._shutdown = False"
process_loop_start ==
    /\ UNCHANGED not_wk_vars
    /\ wk_pc = "start"
    /\ wk_shutdown' = FALSE
    /\ wk_pc' = "loop"
    /\ UNCHANGED <<wk_queue, wk_job, wk_status, wk_printed, wk_trace, wk_added,
                   next_job_id, gui_disabled, gui_signals, gui_press,
                   gui_closed>>

\* "while not self._shutdown: if inputQueue.empty(): time.sleep(1)": the
\* thread goes on when it is shut down or finds a job
process_loop_test ==
    /\ UNCHANGED not_wk_vars
    /\ wk_pc = "loop"
    /\ wk_shutdown \/ wk_queue # << >>
    /\ wk_pc' = IF wk_shutdown THEN "exited" ELSE "get"
    /\ UNCHANGED <<wk_shutdown, wk_queue, wk_job, wk_status, wk_printed,
                   wk_trace, wk_added, next_job_id, gui_disabled, gui_signals,
                   gui_press, gui_closed>>

\* mutant: the job put last is taken
queue_get_last(q) == [job |-> q[Len(q)], rest |-> SubSeq(q, 1, Len(q) - 1)]

\* queue.Queue is first in, first out
queue_get(q) == [job |-> Head(q), rest |-> Tail(q)]

\* "job = inputQueue.get()"
process_loop_get ==
    /\ UNCHANGED not_wk_vars
    /\ wk_pc = "get"
    /\ wk_job' = queue_get(wk_queue).job
    /\ wk_queue' = queue_get(wk_queue).rest
    /\ wk_pc' = "dispatch"
    /\ UNCHANGED <<wk_shutdown, wk_status, wk_printed, wk_trace, wk_added,
                   next_job_id, gui_disabled, gui_signals, gui_press,
                   gui_closed>>

\* the messages of dispatch_job before the action runs: the line, the
\* action's name, the job's keys, the empty line
job_header(job) ==
    <<message(job, "line"), message(job, "name"), message(job, "Baud"),
      message(job, "File"), message(job, "Port"), message(job, "blank")>>

\* dispatch_job down to the call of run_job
dispatch_job ==
    /\ UNCHANGED not_wk_vars
    /\ wk_pc = "dispatch"
    /\ IF wk_job.action_id \notin registered_actions
       THEN /\ wk_trace' = Append(wk_trace,
                              message(wk_job, "Unknown job type. Aborting"))
            /\ wk_status' = 1
            /\ wk_pc' = "finished"
       ELSE /\ wk_trace' = (wk_trace \o job_header(wk_job))
                              \o <<Ev("run_job", wk_job, "", 0)>>
            /\ wk_pc' = "run_job"
            /\ UNCHANGED wk_status
    /\ wk_printed' = FALSE
    /\ UNCHANGED <<wk_shutdown, wk_queue, wk_job, wk_added, next_job_id,
                   gui_disabled, gui_signals, gui_press,
                   gui_closed>>

\* mutant: stdout stays redirected when dispatch_job has returned
stdout_redirected_late(at) == at \in {"run_job", "finished", "loop"}

\* "with redirect_stdout(AUxIOWedge(self.message))": the with statement
\* holds the call of run_job and nothing else
stdout_redirected(at) == at = "run_job"

\* the action prints a line: stdout is redirected to self.message
run_job_prints ==
    /\ UNCHANGED not_wk_vars
    /\ stdout_redirected(wk_pc)
    /\ ~wk_printed
    /\ wk_printed' = TRUE
    /\ wk_trace' = Append(wk_trace, message(wk_job, "print"))
    /\ UNCHANGED <<wk_pc, wk_shutdown, wk_queue, wk_job, wk_status, wk_added,
                   next_job_id, gui_disabled, gui_signals, gui_press,
                   gui_closed>>

\* how the script an action calls can end
Outcomes == {"return", "SystemExit", "exception"}

\* how run_job ends when the script it calls ends with outcome:
\* AUxArtemisUploadFirmware returns 0, or 1 from its "except Exception";
\* AUxArtemisBurnBootloader calls asb_main() and has no return statement
run_job(action_id, outcome) ==
    IF action_id = UPLOAD_FIRMWARE
    THEN CASE outcome = "return" -> [how |-> "return", status |-> 0]
           [] outcome = "exception" -> [how |-> "return", status |-> 1]
           [] OTHER -> [how |-> "SystemExit", status |-> 0]
    ELSE CASE outcome = "return" -> [how |-> "return", status |-> status_None]
           [] OTHER -> [how |-> outcome, status |-> 0]

\* mutant: every exception is caught
dispatch_catches_all(how) == how # "return"

\* "except SystemExit as error"
dispatch_catches(how) == how = "SystemExit"

\* run_job ends and dispatch_job with it: it returns run_job's value, or
\* 1 after "Complete." when it caught the exception; an exception it does
\* not catch leaves dispatch_job and process_loop, and the thread ends
run_job_ends ==
    /\ UNCHANGED not_wk_vars
    /\ wk_pc = "run_job"
    /\ \E outcome \in Outcomes :
          LET r == run_job(wk_job.action_id, outcome)
              ended == Ev("ended", wk_job, outcome, 0)
          IN  IF r.how = "return"
              THEN /\ wk_trace' = Append(wk_trace, ended)
                   /\ wk_status' = r.status
                   /\ wk_pc' = "finished"
              ELSE IF dispatch_catches(r.how)
              THEN /\ wk_trace' = wk_trace
                         \o <<ended, message(wk_job, "Complete.")>>
                   /\ wk_status' = 1
                   /\ wk_pc' = "finished"
              ELSE /\ wk_trace' = Append(wk_trace, ended)
                   /\ wk_pc' = "dead"
                   /\ UNCHANGED wk_status
    /\ UNCHANGED <<wk_shutdown, wk_queue, wk_job, wk_printed, wk_added,
                   next_job_id, gui_disabled, gui_signals, gui_press,
                   gui_closed>>

\* "self._cb_function(self.TYPE_FINISHED, status, job.action_id,
\* job.job_id)": on_worker_callback emits sig_finished
finished_callback ==
    /\ UNCHANGED not_wk_vars
    /\ wk_pc = "finished"
    /\ wk_trace' = Append(wk_trace, Ev("finished", wk_job, "", wk_status))
    /\ gui_signals' = Append(gui_signals, wk_status)
    /\ wk_pc' = "loop"
    /\ UNCHANGED <<wk_shutdown, wk_queue, wk_job, wk_status, wk_printed,
                   wk_added, next_job_id, gui_disabled, gui_press,
                   gui_closed>>

Init ==
    /\ pc = "idle"
    /\ total_len = 0
    /\ tries = 0
    /\ ser_open = FALSE
    /\ raised = FALSE
    /\ total_frames = 0
    /\ curr_frame = 0
    /\ resend_count = 0
    /\ bl_done = FALSE
    /\ bl_failed = FALSE
    /\ wire = << >>
    /\ results = << >>
    /\ wu_pc = "idle"
    /\ loadTries = 0
    /\ loadSuccess = FALSE
    /\ wu_open = FALSE
    /\ abort = 1
    /\ otadescaddr = default_otadesc
    /\ reset = 2
    /\ split = 0
    /\ totalLen = 0
    /\ numUpdates = 0
    /\ upd_start = 0
    /\ upd_end = 0
    /\ applen = 0
    /\ data_x = 0
    /\ wu_wire = << >>
    /\ wu_result = "none"
    /\ wu_attempts = 0
    /\ load_address_blob = default_load_address_blob
    /\ uploadbinfile = FALSE
    /\ wired_blob = << >>
    /\ ib_pc = "idle"
    /\ ib_opt = default_options
    /\ ib_hdr = << >>
    /\ ib_w1 = << >>
    /\ ib_app_length = 0
    /\ ib_start = 0
    /\ ib_loadaddress = 0
    /\ ib_out = << >>
    /\ pk_pc = "idle"
    /\ pk_frame = << >>
    /\ pk_crc = 0
    /\ pk_residue = 0
    /\ pk_cmd = 0
    /\ pk_data = << >>
    /\ pk_wire = << >>
    /\ pk_read = 0
    /\ pk_packet = no_packet
    /\ wk_pc = "start"
    /\ wk_shutdown = FALSE
    /\ wk_queue = << >>
    /\ wk_job = no_job
    /\ wk_status = 0
    /\ wk_printed = FALSE
    /\ wk_trace = << >>
    /\ wk_added = << >>
    /\ next_job_id = 1
    /\ gui_disabled = FALSE
    /\ gui_signals = << >>
    /\ gui_press = no_press
    /\ gui_closed = FALSE

SVLNext ==
    \/ upload_main
    \/ open_port
    \/ phase_setup
    \/ phase_bootload
    \/ bootload_loop
    \/ attempt_end

SpecSVL == Init /\ [][SVLNext]_vars

\* the reads time out and nothing else blocks: upload_main keeps running
FairSpecSVL == SpecSVL /\ WF_vars(open_port) /\ WF_vars(phase_setup)
                 /\ WF_vars(phase_bootload) /\ WF_vars(bootload_loop)
                 /\ WF_vars(attempt_end)

(***************************************************************************)
(* Wired update: update_main / updater / connect_device                    *)
(*                                                                         *)
(* The methods of this part use some names without "self." (abort,         *)
(* otadescaddr, ser, send_ackd_command) and two attributes under another   *)
(* name than __init__ gives them (otadescaddr for otadesc, reset for       *)
(* reset_after); they are read as the attributes they stand for.  The      *)
(* bytes of a message are not modelled here: a message is its type, the    *)
(* length in its header word, its parameter word and the interval of blob  *)
(* offsets it carries or checksums.                                        *)
(***************************************************************************)

(***************************************************************************)
(* What the serial line delivers to one ser.read(response_len):            *)
(*   n       number of bytes that arrived before the read timeout          *)
(*   type    low 16 bits of the word at offset 4                           *)
(*   status  the word at offset 12                                         *)
(***************************************************************************)
AllWUReplies(response_len) ==
    {[n |-> 0, type |-> 0, status |-> 0],
     [n |-> response_len, type |-> AM_SECBOOT_WIRED_MSGTYPE_STATUS,
      status |-> AM_SECBOOT_WIRED_ACK_STATUS_SUCCESS]}
    \cup
    {[n |-> response_len, type |-> AM_SECBOOT_WIRED_MSGTYPE_ACK, status |-> st] :
        st \in {AM_SECBOOT_WIRED_ACK_STATUS_SUCCESS,
                AM_SECBOOT_WIRED_ACK_STATUS_INVALID_ADDR}}

\* the message type the device is to answer with
ExpectedReplyType(type) ==
    IF type = AM_SECBOOT_WIRED_MSGTYPE_HELLO
    THEN AM_SECBOOT_WIRED_MSGTYPE_STATUS
    ELSE AM_SECBOOT_WIRED_MSGTYPE_ACK

OddReply(type, n, rtype) == n # 0 /\ rtype # ExpectedReplyType(type)

OddCount ==
    Cardinality({i \in 1..Len(wu_wire) :
        OddReply(wu_wire[i].type, wu_wire[i].n, wu_wire[i].rtype)})

\* the replies the device may give to a message of the given type
WUReplies(type, response_len) ==
    {r \in AllWUReplies(response_len) :
        OddReply(type, r.n, r.type) => OddCount < MaxOddReplies}

\* send_command's second result: the response has the length asked for
send_command(reply, response_len) == reply.n = response_len

\* send_ackd_command's second result
send_ackd_command(reply) ==
    IF send_command(reply, ack_response_len) = FALSE THEN FALSE
    ELSE IF reply.type = AM_SECBOOT_WIRED_MSGTYPE_ACK
              /\ reply.status # AM_SECBOOT_WIRED_ACK_STATUS_SUCCESS
    THEN FALSE
    ELSE TRUE

\* "if self.send_ackd_command(abortMsg) == False": the value compared with
\* False is the (response, success) tuple, which never equals it
abort_failed(reply) == FALSE

\* what send_ackd_command shows in the messages window: the lines, each
\* with the word of the response it prints (0 for a line without one)
ackd_report(reply) ==
    IF send_command(reply, ack_response_len) = FALSE
    THEN << [text |-> "Response not valid", value |-> 0] >>
    ELSE IF reply.type = AM_SECBOOT_WIRED_MSGTYPE_ACK
              /\ reply.status # AM_SECBOOT_WIRED_ACK_STATUS_SUCCESS
    THEN << [text |-> "Received NACK", value |-> 0],
            [text |-> "error = ", value |-> reply.status],
            [text |-> "Upload failed: No ack to command", value |-> 0] >>
    ELSE << >>

\* "response, success = ...; if success == False"
ack_failed_never(reply) == FALSE
ack_failed(reply) == send_ackd_command(reply) = FALSE

\* len(params) of a message: the bytearray connect_device builds for it
\* (4 bytes for HELLO, 8 for ABORT, OTADESC and RESET, 16 for UPDATE, and
\* 8 followed by the chunk for DATA)
params_len_hello(type, lo, hi) == 4
params_len(type, lo, hi) ==
    CASE type = AM_SECBOOT_WIRED_MSGTYPE_HELLO -> 4
      [] type = AM_SECBOOT_WIRED_MSGTYPE_UPDATE -> 16
      [] type = AM_SECBOOT_WIRED_MSGTYPE_DATA -> 8 + (hi - lo)
      [] OTHER -> 8

\* what send_command writes for params of n bytes: the checksum of params
\* as 4 bytes, then params
send_command_writes(n) ==
    << [part |-> "crc32(params)", bytes |-> 4],
       [part |-> "params", bytes |-> n] >>

\* one entry of wu_wire: the message (type, length in the header word,
\* parameter word, blob offsets carried or checksummed, number of bytes and
\* what was written for it) and the reply to it
Msg(type, len, arg, lo, hi, reply) ==
    [type |-> type, len |-> len, arg |-> arg, lo |-> lo, hi |-> hi,
     plen |-> params_len(type, lo, hi),
     written |-> send_command_writes(params_len(type, lo, hi)),
     n |-> reply.n, rtype |-> reply.type, status |-> reply.status]

maxChunkSize == AM_MAX_UART_MSG_SIZE - 12
\* mutant: the header of a chunk is not counted
maxUpdateSize_no_header == split
maxUpdateSize == AM_WU_IMAGEHDR_SIZE + split

\* the positions of connect_device after each of its stages
after_updates == IF reset # 0 THEN "reset" ELSE "success"
\* "if (self.uploadbinfile != '')"
after_otadesc == IF uploadbinfile THEN "updates" ELSE after_updates
after_abort == IF otadescaddr # no_otadesc THEN "otadesc" ELSE after_otadesc
after_status == IF abort # -1 THEN "abort" ELSE after_abort

\* "for numUpdates in range(numUpdates, 0, -1)": the position after the
\* pass for update number n
after_update(n) == IF n - 1 >= 1 THEN "update" ELSE after_updates

\* connect_device ends: by a return (wu_pc "attempt_end") or, at position
\* "success", by setting loadSuccess
Goto(pos) ==
    IF pos = "success"
    THEN wu_pc' = "attempt_end" /\ loadSuccess' = TRUE
    ELSE wu_pc' = pos /\ UNCHANGED loadSuccess

\* blobs of 1..MaxUpdates full updates, and one whose last update is short
BlobLens ==
    {n * (AM_WU_IMAGEHDR_SIZE + FLASH_PAGE_SIZE) : n \in 1..MaxUpdates}
    \cup {(MaxUpdates - 1) * (AM_WU_IMAGEHDR_SIZE + FLASH_PAGE_SIZE) + 100}

\* the load addresses and split sizes tried: the values of __init__ (for
\* split the smallest positive multiple of FLASH_PAGE_SIZE, which keeps
\* the number of DATA messages of an update at two), an address that is
\* not word aligned and a split that is no multiple of the page size
LoadAddresses == {default_load_address_blob, default_load_address_blob + 2}
Splits == {FLASH_PAGE_SIZE, FLASH_PAGE_SIZE \div 2}

\* the sizes of the files the wired-update blob is built from: those that
\* fill 1..MaxUpdates chunks of FLASH_PAGE_SIZE bytes, and one that ends
\* in a chunk of 4 bytes, 3 of them padding
WiredAppLens ==
    {n * FLASH_PAGE_SIZE : n \in 1..MaxUpdates}
    \cup {(MaxUpdates - 1) * FLASH_PAGE_SIZE + 1}

\* the chunks the while loop of blob2wired_process writes from start on
RECURSIVE blob2wired_chunks(_, _, _, _)
blob2wired_chunks(o, app_length, start, loadaddress) ==
    IF start < app_length
    THEN LET end == chunk_end(start, app_length, o.split)
         IN  <<wired_chunk(o, start, end, loadaddress)>>
                \o blob2wired_chunks(o, app_length, end,
                                     next_loadaddress(loadaddress, o.split))
    ELSE << >>

\* the file blob2wired_process writes for the options o
blob2wired_file(o) ==
    blob2wired_chunks(o, pad_to_block_size(o.app, 4), 0, o.load_address_wired)

\* where the chunks lie in the file: the length of each, and how much of
\* it is body
file_layout(chunks) ==
    [i \in 1..Len(chunks) |-> [len |-> chunks[i].len, size |-> chunks[i].size]]

\* len() of a file of chunks
RECURSIVE file_len(_)
file_len(chunks) ==
    IF chunks = << >> THEN 0 ELSE Head(chunks).len + file_len(Tail(chunks))

\* the files blob2wired_process writes for the split sizes it accepts
\* (the other options as __init__ sets them), as their layouts
WiredFiles ==
    [s \in {s2 \in Splits : ~blob2wired_rejects(s2)} |->
       {file_layout(blob2wired_file(
           [default_options EXCEPT !.app = a, !.split = s])) :
          a \in WiredAppLens}]

\* on_update_bootloader_btn_pressed -> update_main: the options are set
\* (input the image builder rejects is tried with the other options as
\* __init__ sets them), bin2blob_process and blob2wired_process run (the
\* latter leaves the wired-update blob in uploadbinfile unless it returns
\* early), and updater is called whatever the two have done
update_main ==
    /\ UNCHANGED not_wu_vars
    /\ wu_pc \in {"idle", "returned"}
    /\ abort' \in {-1, 1}
    /\ otadescaddr' \in {default_otadesc, no_otadesc}
    /\ reset' \in {0, 2}
    /\ load_address_blob' \in LoadAddresses
    /\ split' \in Splits
    /\ (bin2blob_rejects(load_address_blob') \/ blob2wired_rejects(split'))
          => /\ abort' = 1
             /\ otadescaddr' = default_otadesc
             /\ reset' = 2
    /\ IF blob2wired_rejects(split')
       THEN UNCHANGED <<uploadbinfile, totalLen, wired_blob>>
       ELSE /\ uploadbinfile' = TRUE
            /\ wired_blob' \in WiredFiles[split']
            /\ totalLen' = file_len(wired_blob')
    /\ wu_pc' = "updater"
    /\ wu_result' = "none"
    /\ wu_wire' = << >>
    /\ wu_attempts' = 0
    /\ UNCHANGED <<loadTries, loadSuccess, wu_open, numUpdates, upd_start,
                   upd_end, applen, data_x>>

\* the "except:" of the pre-check ends updater with a return
precheck_failed_pc_retry == "while"
precheck_failed_pc == "returned"

\* updater up to its while loop: the port is opened and closed once to
\* see whether it is there
updater ==
    /\ UNCHANGED not_wu_vars
    /\ UNCHANGED <<load_address_blob, uploadbinfile, wired_blob>>
    /\ UNCHANGED wu_attempts
    /\ wu_pc = "updater"
    /\ \E ok \in BOOLEAN :
          IF ok
          THEN wu_pc' = "while" /\ UNCHANGED wu_result
          ELSE wu_pc' = precheck_failed_pc /\ wu_result' = "could not open"
    /\ UNCHANGED <<loadTries, loadSuccess, wu_open, abort, otadescaddr, reset,
                   split, totalLen, numUpdates, upd_start, upd_end, applen,
                   data_x, wu_wire>>

\* the head of "while self.loadTries < 3" and the opening of the port
updater_while ==
    /\ UNCHANGED not_wu_vars
    /\ UNCHANGED <<load_address_blob, uploadbinfile, wired_blob>>
    /\ wu_pc = "while"
    /\ IF loadTries < max_load_tries
       THEN /\ loadSuccess' = FALSE
            /\ wu_wire' = << >>
            /\ \E ok \in BOOLEAN :
                  IF ok
                  THEN wu_open' = TRUE /\ wu_pc' = "hello"
                         /\ wu_attempts' = wu_attempts + 1
                         /\ UNCHANGED wu_result
                  ELSE wu_open' = FALSE /\ wu_pc' = "returned"
                         /\ wu_result' = "exception"
                         /\ UNCHANGED wu_attempts
       ELSE /\ wu_pc' = "returned"
            /\ wu_result' = "failed"
            /\ UNCHANGED <<loadSuccess, wu_wire, wu_open, wu_attempts>>
    /\ UNCHANGED <<loadTries, abort, otadescaddr, reset, split, totalLen,
                   numUpdates, upd_start, upd_end, applen, data_x>>

\* "(word & 0xFFFF) == self.AM_SECBOOT_WIRED_MSGTYPE_STATUS"
status_received_any(reply) == TRUE
status_received(reply) == reply.type = AM_SECBOOT_WIRED_MSGTYPE_STATUS

\* connect_device: HELLO and the check of the response
connect_hello ==
    /\ UNCHANGED not_wu_vars
    /\ UNCHANGED <<load_address_blob, uploadbinfile, wired_blob>>
    /\ UNCHANGED wu_attempts
    /\ wu_pc = "hello"
    /\ \E reply \in WUReplies(AM_SECBOOT_WIRED_MSGTYPE_HELLO, hello_response_len) :
          /\ wu_wire' = Append(wu_wire,
                Msg(AM_SECBOOT_WIRED_MSGTYPE_HELLO, 8, 0, 0, 0, reply))
          /\ IF send_command(reply, hello_response_len) = FALSE
             THEN Goto("attempt_end")
             ELSE IF status_received(reply)
             THEN Goto(after_status)
             ELSE Goto("attempt_end")
    /\ UNCHANGED <<loadTries, wu_open, abort, otadescaddr, reset, split,
                   totalLen, numUpdates, upd_start, upd_end, applen, data_x,
                   wu_result>>

\* connect_device: ABORT
connect_abort ==
    /\ UNCHANGED not_wu_vars
    /\ UNCHANGED <<load_address_blob, uploadbinfile, wired_blob>>
    /\ UNCHANGED wu_attempts
    /\ wu_pc = "abort"
    /\ \E reply \in WUReplies(AM_SECBOOT_WIRED_MSGTYPE_ABORT, ack_response_len) :
          /\ wu_wire' = Append(wu_wire,
                Msg(AM_SECBOOT_WIRED_MSGTYPE_ABORT, 12, abort, 0, 0, reply))
          /\ IF abort_failed(reply)
             THEN Goto("attempt_end")
             ELSE Goto(after_abort)
    /\ UNCHANGED <<loadTries, wu_open, abort, otadescaddr, reset, split,
                   totalLen, numUpdates, upd_start, upd_end, applen, data_x,
                   wu_result>>

\* connect_device: OTADESC
connect_otadesc ==
    /\ UNCHANGED not_wu_vars
    /\ UNCHANGED <<load_address_blob, uploadbinfile, wired_blob>>
    /\ UNCHANGED wu_attempts
    /\ wu_pc = "otadesc"
    /\ \E reply \in WUReplies(AM_SECBOOT_WIRED_MSGTYPE_OTADESC, ack_response_len) :
          /\ wu_wire' = Append(wu_wire,
                Msg(AM_SECBOOT_WIRED_MSGTYPE_OTADESC, 12, otadescaddr, 0, 0, reply))
          /\ IF ack_failed(reply)
             THEN Goto("attempt_end")
             ELSE Goto(after_otadesc)
    /\ UNCHANGED <<loadTries, wu_open, abort, otadescaddr, reset, split,
                   totalLen, numUpdates, upd_start, upd_end, applen, data_x,
                   wu_result>>

\* connect_device: the blob is read and the number of updates computed
connect_updates ==
    /\ UNCHANGED not_wu_vars
    /\ UNCHANGED <<load_address_blob, uploadbinfile, wired_blob>>
    /\ UNCHANGED wu_attempts
    /\ wu_pc = "updates"
    /\ IF (split % FLASH_PAGE_SIZE) # 0
       THEN /\ Goto("attempt_end")
            /\ UNCHANGED <<numUpdates, upd_end>>
       ELSE LET n == (totalLen + maxUpdateSize - 1) \div maxUpdateSize
            IN  /\ numUpdates' = n
                /\ upd_end' = totalLen
                /\ Goto(after_update(n + 1))
    /\ UNCHANGED <<loadTries, wu_open, abort, otadescaddr, reset, split,
                   totalLen, upd_start, applen, data_x, wu_wire, wu_result>>

\* "for x in range(0, applen, maxChunkSize)": the position after UPDATE
\* (x = 0) or after the DATA message at offset x - maxChunkSize
after_data(x, len, n) == IF x < len THEN "data" ELSE after_update(n)

\* "start = (numUpdates-1)*maxUpdateSize"
update_start_asc(n) ==
    (((totalLen + maxUpdateSize - 1) \div maxUpdateSize) - n) * maxUpdateSize
update_start(n) == (n - 1) * maxUpdateSize

\* "applen = end - start"
update_len_max(start, end) == maxUpdateSize
update_len(start, end) == end - start

\* connect_device: one UPDATE of the for loop over numUpdates
connect_update ==
    /\ UNCHANGED not_wu_vars
    /\ UNCHANGED <<load_address_blob, uploadbinfile, wired_blob>>
    /\ UNCHANGED wu_attempts
    /\ wu_pc = "update"
    /\ LET start == update_start(numUpdates)
           len == update_len(start, upd_end)
       IN  /\ upd_start' = start
           /\ applen' = len
           /\ upd_end' = upd_end - len
           /\ data_x' = 0
           /\ \E reply \in WUReplies(AM_SECBOOT_WIRED_MSGTYPE_UPDATE, ack_response_len) :
                 /\ wu_wire' = Append(wu_wire,
                       Msg(AM_SECBOOT_WIRED_MSGTYPE_UPDATE, 20, len,
                           start, upd_end, reply))
                 /\ IF ack_failed(reply)
                    THEN Goto("attempt_end") /\ UNCHANGED numUpdates
                    ELSE LET pos == after_data(0, len, numUpdates)
                         IN  /\ Goto(pos)
                             /\ numUpdates' =
                                  IF pos = "data" THEN numUpdates
                                  ELSE numUpdates - 1
    /\ UNCHANGED <<loadTries, wu_open, abort, otadescaddr, reset, split,
                   totalLen, wu_result>>

\* the chunk of the DATA message at offset x of the update
data_chunk(x) ==
    IF x + maxChunkSize > applen
    THEN PySlice(totalLen, upd_start + x, upd_start + applen)
    ELSE PySlice(totalLen, upd_start + x, upd_start + x + maxChunkSize)

\* connect_device: one DATA of the for loop over the update's bytes
connect_data ==
    /\ UNCHANGED not_wu_vars
    /\ UNCHANGED <<load_address_blob, uploadbinfile, wired_blob>>
    /\ UNCHANGED wu_attempts
    /\ wu_pc = "data"
    /\ LET chunk == data_chunk(data_x)
           chunklen == chunk.hi - chunk.lo
       IN  \E reply \in WUReplies(AM_SECBOOT_WIRED_MSGTYPE_DATA, ack_response_len) :
              /\ wu_wire' = Append(wu_wire,
                    Msg(AM_SECBOOT_WIRED_MSGTYPE_DATA, chunklen + 12, data_x,
                        chunk.lo, chunk.hi, reply))
              /\ IF ack_failed(reply)
                 THEN Goto("attempt_end") /\ UNCHANGED <<data_x, numUpdates>>
                 ELSE LET pos == after_data(data_x + maxChunkSize, applen,
                                            numUpdates)
                      IN  /\ Goto(pos)
                          /\ data_x' = data_x + maxChunkSize
                          /\ numUpdates' =
                               IF pos = "data" THEN numUpdates
                               ELSE numUpdates - 1
    /\ UNCHANGED <<loadTries, wu_open, abort, otadescaddr, reset, split,
                   totalLen, upd_start, upd_end, applen, wu_result>>

\* connect_device: RESET
connect_reset ==
    /\ UNCHANGED not_wu_vars
    /\ UNCHANGED <<load_address_blob, uploadbinfile, wired_blob>>
    /\ UNCHANGED wu_attempts
    /\ wu_pc = "reset"
    /\ \E reply \in WUReplies(AM_SECBOOT_WIRED_MSGTYPE_RESET, ack_response_len) :
          /\ wu_wire' = Append(wu_wire,
                Msg(AM_SECBOOT_WIRED_MSGTYPE_RESET, 12, reset, 0, 0, reply))
          /\ IF ack_failed(reply)
             THEN Goto("attempt_end")
             ELSE Goto("success")
    /\ UNCHANGED <<loadTries, wu_open, abort, otadescaddr, reset, split,
                   totalLen, numUpdates, upd_start, upd_end, applen, data_x,
                   wu_result>>

\* updater after connect_device has returned (its locals are gone)
updater_attempt_end ==
    /\ UNCHANGED not_wu_vars
    /\ UNCHANGED <<load_address_blob, uploadbinfile, wired_blob>>
    /\ UNCHANGED wu_attempts
    /\ wu_pc = "attempt_end"
    /\ wu_open' = FALSE
    /\ IF loadSuccess = TRUE
       THEN /\ wu_pc' = "returned"
            /\ wu_result' = "complete"
            /\ UNCHANGED loadTries
       ELSE /\ loadTries' = loadTries + 1
            /\ wu_pc' = "while"
            /\ UNCHANGED wu_result
    /\ numUpdates' = 0
    /\ upd_start' = 0
    /\ upd_end' = 0
    /\ applen' = 0
    /\ data_x' = 0
    /\ UNCHANGED <<loadSuccess, abort, otadescaddr, reset, split, totalLen,
                   wu_wire>>

WUNext ==
    \/ update_main
    \/ updater
    \/ updater_while
    \/ connect_hello
    \/ connect_abort
    \/ connect_otadesc
    \/ connect_updates
    \/ connect_update
    \/ connect_data
    \/ connect_reset
    \/ updater_attempt_end

SpecWU == Init /\ [][WUNext]_vars

(***************************************************************************)
(* SVL properties                                                          *)
(***************************************************************************)
IsBootRx(e) == e.dir = "rx" /\ e.phase = "bootload"
IsBootTx(e) == e.dir = "tx" /\ e.phase = "bootload"
IsFrameOrDone(e) == e.dir = "tx" /\ e.cmd \in {SVL_CMD_FRAME, SVL_CMD_DONE}
IsBL(e) == e.dir = "tx" /\ e.cmd = SVL_CMD_BL
IsDone(e) == e.dir = "tx" /\ e.cmd = SVL_CMD_DONE

\* packets received / sent by phase_bootload in this attempt, in order
BootRx == SelectSeq(wire, IsBootRx)
BootTx == SelectSeq(wire, IsBootTx)

Valid(e) == e.timeout = 0 /\ e.crc = 0
ValidNext(e) == Valid(e) /\ e.cmd = SVL_CMD_NEXT
ValidRetry(e) == Valid(e) /\ e.cmd = SVL_CMD_RETRY

\* the while loop of phase_bootload has ended
LoopOver == pc = "while" /\ (bl_done \/ bl_failed)

\* the i-th packet of a transfer without errors: frames 1..N, then DONE
ExpectedTx(i) ==
    IF i <= Ceil(total_len, frame_size)
    THEN [dir |-> "tx", phase |-> "bootload", cmd |-> SVL_CMD_FRAME,
          lo |-> (i - 1) * frame_size, hi |-> Min(i * frame_size, total_len),
          crc |-> 0, timeout |-> 0]
    ELSE [dir |-> "tx", phase |-> "bootload", cmd |-> SVL_CMD_DONE,
          lo |-> 0, hi |-> 0, crc |-> 0, timeout |-> 0]

\* C1: with an image of L > 0 bytes and only CRC-valid NEXT packets from
\* the device, the host sends frames 1..ceil(L/2048) in ascending order,
\* frame i carrying image[(i-1)*2048, min(i*2048, L)), then one DONE, and
\* the attempt is reported as not failed.
C1_FramesThenDone ==
    (/\ total_len > 0
     /\ pc \in {"while", "for", "returned"}
     /\ \A i \in 1..Len(BootRx) : ValidNext(BootRx[i]))
    => /\ \A i \in 1..Len(BootTx) : BootTx[i] = ExpectedTx(i)
       /\ LoopOver =>
            /\ Len(BootTx) = Ceil(total_len, frame_size) + 1
            /\ bl_failed = FALSE
       /\ (pc \in {"for", "returned"} /\ Len(BootRx) > 0) =>
            /\ Len(BootTx) = Ceil(total_len, frame_size) + 1
            /\ results[Len(results)] = FALSE
            /\ pc = "returned"

\* the largest image, ending in a partial frame, went through
C1_Witness ==
    /\ pc = "returned"
    /\ total_len = MaxFrames * frame_size - frame_size + 1
    /\ Len(BootRx) = MaxFrames + 1
    /\ \A i \in 1..Len(BootRx) : ValidNext(BootRx[i])
    /\ results = << FALSE >>

BadPacket(e) ==
    e.timeout # 0 \/ e.crc # 0 \/ e.cmd \notin {SVL_CMD_NEXT, SVL_CMD_RETRY}

\* C2: after a bootload-phase packet that is timed out, fails the CRC
\* check or carries a command other than NEXT and RETRY, the attempt is
\* marked failed and no FRAME and no DONE is sent in this attempt.
C2_NoSendAfterBadPacket ==
    \A i \in 1..Len(wire) :
        (IsBootRx(wire[i]) /\ BadPacket(wire[i]))
        => /\ bl_failed
           /\ \A j \in (i + 1)..Len(wire) : ~IsFrameOrDone(wire[j])

\* C3: four RETRY packets in a row end the attempt as failed on the
\* fourth, and no DONE packet is sent in that attempt.
C3_RetryCap ==
    \A i \in 1..(Len(BootRx) - 3) :
        (\A k \in i..(i + 3) : ValidRetry(BootRx[k]))
        => /\ i + 3 = Len(BootRx)
           /\ bl_failed /\ bl_done
           /\ \A j \in 1..Len(wire) : ~IsDone(wire[j])

C3_Witness ==
    /\ LoopOver
    /\ Len(BootRx) >= 5
    /\ \A k \in (Len(BootRx) - 3)..Len(BootRx) : ValidRetry(BootRx[k])
    /\ ValidNext(BootRx[Len(BootRx) - 4])

\* no four RETRY packets in a row
AtMost3Consecutive(rx) ==
    \A i \in 1..(Len(rx) - 3) : \E k \in i..(i + 3) : rx[k].cmd # SVL_CMD_RETRY

NumRetries == Cardinality({i \in 1..Len(BootRx) : BootRx[i].cmd = SVL_CMD_RETRY})

\* C4: every NEXT resets resend_count to 0, so only consecutive RETRYs
\* count: when the device sends only valid NEXT and RETRY packets, never
\* four RETRYs in a row, the upload succeeds, whatever the total of RETRYs.
C4_ConsecutiveRetriesOnly ==
    /\ (pc = "while" /\ Len(BootRx) > 0 /\ BootRx[Len(BootRx)].cmd = SVL_CMD_NEXT)
         => resend_count = 0
    /\ (/\ pc = "while"
        /\ AtMost3Consecutive(BootRx)
        /\ \A i \in 1..Len(BootRx) : (ValidNext(BootRx[i]) \/ ValidRetry(BootRx[i])))
         => /\ bl_failed = FALSE
            /\ bl_done => /\ curr_frame = total_frames + 1
                          /\ IsDone(wire[Len(wire)])

\* a successful attempt with more RETRYs in total than the cap
C4_Witness ==
    /\ LoopOver
    /\ bl_failed = FALSE
    /\ NumRetries > resend_max
    /\ IsDone(wire[Len(wire)])

\* C5: no FRAME and no DONE packet is sent in an attempt that has not sent
\* BL before: a failed setup phase ends the attempt before the bootload
\* phase exchanges a packet.
C5_NoBootloadWithoutBL ==
    \A j \in 1..Len(wire) :
        IsFrameOrDone(wire[j]) => \E i \in 1..(j - 1) : IsBL(wire[i])

\* C6: BL is sent only in reply to a packet, received after the 0x55
\* byte, that is not timed out and has CRC residue 0; after a timeout or
\* a CRC error in the setup phase no BL is sent.
C6_BLOnlyAfterValidReply ==
    /\ \A j \in 1..Len(wire) :
          IsBL(wire[j]) =>
             /\ j = 3
             /\ wire[1] = TxByte("setup", baud_detect_byte)
             /\ wire[2].dir = "rx" /\ wire[2].phase = "setup"
             /\ wire[2].timeout = 0 /\ wire[2].crc = 0
    /\ (Len(wire) >= 2 /\ (wire[2].timeout # 0 \/ wire[2].crc # 0))
          => \A j \in 1..Len(wire) : ~IsBL(wire[j])

C6_Witness ==
    /\ Len(wire) >= 3
    /\ IsBL(wire[3])
    /\ wire[2].cmd = SVL_CMD_VER

\* C7: at most 3 attempts; an attempt follows only failed attempts; the
\* first successful attempt is the last; every attempt runs on a freshly
\* opened port and starts with curr_frame 0 (the first NEXT asks for
\* frame 1) and resend_count 0.
C7_Attempts ==
    /\ tries <= 3 /\ Len(results) <= tries
    /\ \A i \in 1..Len(results) :
          results[i] = FALSE => (i = Len(results) /\ i = tries /\ pc = "returned")
    /\ pc \in {"phase_setup", "phase_bootload", "while"}
          => (ser_open /\ tries = Len(results) + 1
                /\ \A i \in 1..Len(results) : results[i] = TRUE)
    /\ pc \in {"idle", "for", "returned"} => ~ser_open
    /\ (pc = "while" /\ Len(BootRx) = 0) => (curr_frame = 0 /\ resend_count = 0)
    /\ (pc = "while" /\ Len(BootRx) = 1 /\ ValidNext(BootRx[1]) /\ total_len > 0)
          => BootTx = << ExpectedTx(1) >>

\* two failed attempts, then a third one that succeeds
C7_Witness ==
    /\ pc = "returned"
    /\ results = << TRUE, TRUE, FALSE >>
    /\ ~raised

C9_Terminates ==
    /\ [](pc = "while" => Len(BootRx) <= resend_max * (total_frames + 1))
    /\ [](tries <= num_tries)
    /\ (pc = "for") ~> (pc = "returned")

\* three attempts were used up and the last one ran into the retry cap
C9_Witness ==
    /\ pc = "returned"
    /\ results = << TRUE, TRUE, TRUE >>
    /\ Len(BootRx) = resend_max * (total_frames + 1)

(***************************************************************************)
(* Wired-update properties                                                 *)
(***************************************************************************)
AckedTypes ==
    {AM_SECBOOT_WIRED_MSGTYPE_ABORT, AM_SECBOOT_WIRED_MSGTYPE_OTADESC,
     AM_SECBOOT_WIRED_MSGTYPE_UPDATE, AM_SECBOOT_WIRED_MSGTYPE_DATA,
     AM_SECBOOT_WIRED_MSGTYPE_RESET}

\* the reply to message m was short, or an ACK with a status other than
\* SUCCESS
NackOrShort(m) ==
    \/ m.n < ack_response_len
    \/ /\ m.rtype = AM_SECBOOT_WIRED_MSGTYPE_ACK
       /\ m.status # AM_SECBOOT_WIRED_ACK_STATUS_SUCCESS

\* C10: when the reply to ABORT, OTADESC, UPDATE, DATA or RESET is a NACK
\* or has fewer than 20 bytes, the attempt ends without success and that
\* message is the last one of the attempt.
C10_NackEndsAttempt ==
    \A i \in 1..Len(wu_wire) :
        (wu_wire[i].type \in AckedTypes /\ NackOrShort(wu_wire[i]))
        => /\ i = Len(wu_wire)
           /\ loadSuccess = FALSE
           /\ wu_pc \in {"attempt_end", "while", "returned"}

\* the reply that came with message m of wu_wire
ReplyOf(m) == [n |-> m.n, type |-> m.rtype, status |-> m.status]

\* the device answered m with a complete ACK of status SUCCESS
Acked(m) ==
    /\ m.n = ack_response_len
    /\ m.rtype = AM_SECBOOT_WIRED_MSGTYPE_ACK
    /\ m.status = AM_SECBOOT_WIRED_ACK_STATUS_SUCCESS

\* send_ackd_command reported success for m
Accepted(m) == send_ackd_command(ReplyOf(m))

\* C11: send_ackd_command reports success only for a 20-byte response of
\* message type ACK and status SUCCESS; a full-length response of another
\* message type is reported as failure.
C11_SuccessOnlyOnAck ==
    \A i \in 1..Len(wu_wire) :
        (wu_wire[i].type \in AckedTypes /\ Accepted(wu_wire[i]))
        => Acked(wu_wire[i])

IsUpdate(m) == m.type = AM_SECBOOT_WIRED_MSGTYPE_UPDATE
IsData(m) == m.type = AM_SECBOOT_WIRED_MSGTYPE_DATA

\* the UPDATE messages of this attempt, in the order sent
Updates == SelectSeq(wu_wire, IsUpdate)

\* the number of updates the blob needs
UpdatesNeeded == Ceil(totalLen, maxUpdateSize)

UpdatesDone ==
    \/ wu_pc = "reset"
    \/ wu_pc = "attempt_end" /\ loadSuccess
    \/ wu_pc = "returned" /\ wu_result = "complete"

\* every message of this attempt got a complete ACK of status SUCCESS
FullyAcked ==
    \A i \in 2..Len(wu_wire) : Acked(wu_wire[i])

RECURSIVE SumLen(_)
SumLen(msgs) ==
    IF msgs = << >> THEN 0
    ELSE (Head(msgs).hi - Head(msgs).lo) + SumLen(Tail(msgs))

\* C13: connect_device sends ceil(totalLen / (96 + split)) UPDATE messages
\* when every message is accepted; their byte ranges are pairwise
\* disjoint, at most maxUpdateSize long and cover [0, totalLen); each
\* UPDATE carries the length of its range, and the checksum it carries is
\* taken over just that range.
C13_UpdatesPartitionBlob ==
    /\ maxUpdateSize = AM_WU_IMAGEHDR_SIZE + split
    /\ \A i \in 1..Len(Updates) :
          /\ Updates[i].len = 20
          /\ 0 <= Updates[i].lo /\ Updates[i].lo < Updates[i].hi
          /\ Updates[i].hi <= totalLen
          /\ Updates[i].arg = Updates[i].hi - Updates[i].lo
          /\ Updates[i].arg <= maxUpdateSize
    /\ \A i, j \in 1..Len(Updates) :
          i # j => (Updates[i].hi <= Updates[j].lo \/ Updates[j].hi <= Updates[i].lo)
    /\ Len(Updates) <= UpdatesNeeded
    /\ UpdatesDone =>
          /\ Len(Updates) = UpdatesNeeded
          /\ SumLen(Updates) = totalLen

\* a fully ACKed attempt for the blob whose last update is a short one
C13_Witness ==
    /\ UpdatesDone
    /\ FullyAcked
    /\ totalLen % maxUpdateSize # 0
    /\ Len(Updates) = MaxUpdates

\* the index of the last message of the update whose UPDATE is wu_wire[k]
RECURSIVE LastOfUpdate(_)
LastOfUpdate(k) ==
    IF k < Len(wu_wire) /\ IsData(wu_wire[k + 1])
    THEN LastOfUpdate(k + 1)
    ELSE k

\* the index of the UPDATE that the DATA message wu_wire[i] belongs to
RECURSIVE UpdateOf(_)
UpdateOf(i) ==
    IF i = 0 \/ IsUpdate(wu_wire[i]) THEN i ELSE UpdateOf(i - 1)

\* the DATA messages of wu_wire, with Ok(p) saying what it takes for the
\* message p sent before a DATA to count as acknowledged
DataChunks(Ok(_)) ==
    /\ \A i \in 1..Len(wu_wire) :
          IsData(wu_wire[i]) =>
             LET m == wu_wire[i]
                 p == wu_wire[i - 1]
                 u == wu_wire[UpdateOf(i)]
             IN  /\ i > 1 /\ UpdateOf(i) > 0
                 /\ IsUpdate(p) \/ IsData(p)
                 /\ Ok(p)
                 /\ m.lo < m.hi
                 /\ m.hi - m.lo <= 8180
                 /\ m.len = (m.hi - m.lo) + 12
                 /\ IsUpdate(p) => m.lo = p.lo
                 /\ IsData(p) => m.lo = p.hi
                 /\ m.arg = m.lo - u.lo
                 /\ m.hi <= u.hi
    /\ \A k \in 1..Len(wu_wire) :
          (/\ IsUpdate(wu_wire[k])
           /\ LastOfUpdate(k) < Len(wu_wire) \/ UpdatesDone)
          => /\ LastOfUpdate(k) > k
             /\ wu_wire[LastOfUpdate(k)].hi = wu_wire[k].hi
             /\ wu_wire[k].hi - wu_wire[k].lo = wu_wire[k].arg

\* C14: within each update of applen bytes the DATA messages carry
\* consecutive, non-overlapping bodies of at most 8180 bytes that cover
\* exactly the applen bytes, the sequence number of each is the offset of
\* its body within the update, and a DATA is sent only after the message
\* before it (UPDATE or DATA) was ACKed.
C14_DataAfterAck == DataChunks(Acked)

\* the same with "send_ackd_command reported success" for "was ACKed"
DataAfterAccepted == DataChunks(Accepted)

\* the stage of connect_device a message belongs to
Stage(m) ==
    CASE m.type = AM_SECBOOT_WIRED_MSGTYPE_HELLO -> 0
      [] m.type = AM_SECBOOT_WIRED_MSGTYPE_ABORT -> 1
      [] m.type = AM_SECBOOT_WIRED_MSGTYPE_OTADESC -> 2
      [] m.type = AM_SECBOOT_WIRED_MSGTYPE_UPDATE -> 3
      [] m.type = AM_SECBOOT_WIRED_MSGTYPE_DATA -> 3
      [] m.type = AM_SECBOOT_WIRED_MSGTYPE_RESET -> 4

Sent(type) == \E i \in 1..Len(wu_wire) : wu_wire[i].type = type

\* the reply to HELLO was a STATUS message of 88 bytes
StatusReceived ==
    /\ Len(wu_wire) >= 1
    /\ wu_wire[1].n = hello_response_len
    /\ wu_wire[1].rtype = AM_SECBOOT_WIRED_MSGTYPE_STATUS

\* the attempt got as far as the updates
ReachedUpdates ==
    UpdatesDone \/ \E i \in 1..Len(wu_wire) : Stage(wu_wire[i]) >= 3

\* the order of the messages of an attempt, with Ok(m) saying what it
\* takes for the message m to count as acknowledged
WUOrder(Ok(_)) ==
    /\ \A i, j \in 1..Len(wu_wire) :
          i < j => /\ Stage(wu_wire[i]) <= Stage(wu_wire[j])
                   /\ Stage(wu_wire[i]) = Stage(wu_wire[j])
                        => Stage(wu_wire[i]) = 3
    /\ Sent(AM_SECBOOT_WIRED_MSGTYPE_ABORT) => (StatusReceived /\ abort >= 0)
    /\ (StatusReceived /\ wu_pc # "abort")
          => (Sent(AM_SECBOOT_WIRED_MSGTYPE_ABORT) <=> abort >= 0)
    /\ Sent(AM_SECBOOT_WIRED_MSGTYPE_OTADESC)
          => (StatusReceived /\ otadescaddr # no_otadesc)
    /\ ReachedUpdates
          => (Sent(AM_SECBOOT_WIRED_MSGTYPE_OTADESC) <=> otadescaddr # no_otadesc)
    /\ \A i \in 1..Len(wu_wire) :
          wu_wire[i].type = AM_SECBOOT_WIRED_MSGTYPE_RESET =>
             /\ reset # 0
             /\ i = Len(wu_wire)
             /\ Len(Updates) = UpdatesNeeded
             /\ SumLen(SelectSeq(wu_wire, IsData)) = totalLen
             /\ \A j \in 1..(i - 1) : IsData(wu_wire[j]) => Ok(wu_wire[j])
    /\ (UpdatesDone /\ wu_pc # "reset")
          => (Sent(AM_SECBOOT_WIRED_MSGTYPE_RESET) <=> reset # 0)

\* C15: after STATUS is received the messages go out in the order
\* [ABORT], [OTADESC], UPDATE/DATA..., [RESET]; ABORT is sent iff
\* abort >= 0, OTADESC iff otadescaddr # 0xFFFFFFFF, RESET iff the reset
\* option is not 0; RESET is sent only after every DATA of every update
\* has been ACKed and is the last message of the attempt.
C15_MessageOrder == WUOrder(Acked)

\* the same with "send_ackd_command reported success" for "has been ACKed"
OrderAccepted == WUOrder(Accepted)

\* the attempt is over and has not succeeded
AttemptFailed ==
    /\ loadSuccess = FALSE
    /\ wu_pc \in {"attempt_end", "while", "returned"}
    /\ wu_pc = "returned" => wu_result \in {"failed", "exception"}

\* C16: HELLO is the first message of every attempt; when its reply has
\* fewer than 88 bytes or a message type other than STATUS, the attempt
\* fails and no ABORT, OTADESC, UPDATE, DATA or RESET is sent in it.
C16_HelloFirst ==
    /\ wu_pc \in {"abort", "otadesc", "updates", "update", "data", "reset"}
          => Len(wu_wire) >= 1
    /\ \A i \in 1..Len(wu_wire) :
          wu_wire[i].type = AM_SECBOOT_WIRED_MSGTYPE_HELLO <=> i = 1
    /\ (/\ Len(wu_wire) >= 1
        /\ \/ wu_wire[1].n < hello_response_len
           \/ wu_wire[1].rtype # AM_SECBOOT_WIRED_MSGTYPE_STATUS)
          => /\ Len(wu_wire) = 1
             /\ AttemptFailed

\* HELLO was answered with 88 bytes of another message type than STATUS
C16_Witness ==
    /\ wu_pc = "attempt_end"
    /\ Len(wu_wire) = 1
    /\ wu_wire[1].n = hello_response_len
    /\ wu_wire[1].rtype = AM_SECBOOT_WIRED_MSGTYPE_ACK

\* the device answered OTADESC with an ACK of status INVALID_ADDR
OtadescNack(m) ==
    /\ m.type = AM_SECBOOT_WIRED_MSGTYPE_OTADESC
    /\ m.n = ack_response_len
    /\ m.rtype = AM_SECBOOT_WIRED_MSGTYPE_ACK
    /\ m.status = AM_SECBOOT_WIRED_ACK_STATUS_INVALID_ADDR

LastNacksOtadesc ==
    Len(wu_wire) > 0 /\ OtadescNack(wu_wire[Len(wu_wire)])

C18_ThreeAttempts ==
    /\ wu_attempts <= 3
    /\ (wu_pc = "while" /\ wu_attempts > 0) => loadSuccess = FALSE
    /\ (wu_pc = "returned" /\ wu_result = "complete")
          => (loadSuccess /\ wu_attempts >= 1)
    /\ (wu_pc = "returned" /\ wu_result = "failed")
          => (wu_attempts = 3 /\ loadSuccess = FALSE)
    /\ (wu_pc = "returned" /\ wu_attempts = 3 /\ loadSuccess = FALSE)
          => wu_result = "failed"

\* C19: no state survives between operations: an operation enters its
\* loop with no attempt counted, whatever the operations before it did,
\* and an operation that found the port at its pre-check makes at least
\* one connection attempt.
C19_NoStateSurvives ==
    /\ (wu_pc = "while" /\ wu_attempts = 0) => loadTries = 0
    /\ (wu_pc = "returned" /\ wu_result \in {"failed", "complete"})
          => wu_attempts >= 1

\* C20: when the port cannot be opened at the pre-check, updater reports
\* the error and returns at once: no connection attempt, no retry, nothing
\* written to the port.
C20_PrecheckFailure ==
    wu_result = "could not open"
    => /\ wu_pc = "returned"
       /\ wu_attempts = 0
       /\ wu_wire = << >>
       /\ wu_open = FALSE

\* the pre-check failed although attempts were left
C20_Witness ==
    /\ wu_result = "could not open"
    /\ wu_pc = "returned"
    /\ loadTries < max_load_tries

\* the attempts of this operation that have ended without success
FailedSoFar ==
    IF wu_pc \in {"hello", "abort", "otadesc", "updates", "update", "data",
                  "reset", "attempt_end"}
    THEN wu_attempts - 1
    ELSE IF wu_pc = "returned" /\ wu_result = "complete"
    THEN wu_attempts - 1
    ELSE wu_attempts

\* what is said of the attempts in C18 holds of an operation that began
\* with loadTries = 0
ThreeAttemptsFromZero ==
    (wu_pc \notin {"idle", "updater"} /\ loadTries = FailedSoFar)
    => C18_ThreeAttempts

(***************************************************************************)
(* Image builder and message framing in the wired update                   *)
(***************************************************************************)
\* the image builder has turned its input down
BuilderRejected ==
    bin2blob_rejects(load_address_blob) \/ blob2wired_rejects(split)

C24_HeaderLenIsBodyLen ==
    \A i \in 1..Len(wu_wire) :
        /\ wu_wire[i].written[1] = [part |-> "crc32(params)", bytes |-> 4]
        /\ wu_wire[i].written[2] = [part |-> "params", bytes |-> wu_wire[i].plen]
        /\ wu_wire[i].len = wu_wire[i].plen

\* C24 as amended: for every message the 4 bytes written first are the
\* checksum of the message body (params), written before it, and the
\* upper 16 bits of the header word are the length of the body plus the 4
\* bytes of the checksum.
C24_HeaderLenIsMessageLen ==
    \A i \in 1..Len(wu_wire) :
        /\ Len(wu_wire[i].written) = 2
        /\ wu_wire[i].written[1] = [part |-> "crc32(params)", bytes |-> 4]
        /\ wu_wire[i].written[2] = [part |-> "params", bytes |-> wu_wire[i].plen]
        /\ wu_wire[i].len = wu_wire[i].plen + 4
        /\ wu_wire[i].plen >= 4

\* an attempt with a message of every type: HELLO, ABORT, OTADESC, UPDATE,
\* DATA (a full chunk and a shorter one) and RESET
C24_Witness ==
    /\ \A t \in AckedTypes \cup {AM_SECBOOT_WIRED_MSGTYPE_HELLO} : Sent(t)
    /\ \E i \in 1..Len(wu_wire) :
          IsData(wu_wire[i]) /\ wu_wire[i].plen = 8 + maxChunkSize
    /\ \E i \in 1..Len(wu_wire) :
          IsData(wu_wire[i]) /\ wu_wire[i].plen < 8 + maxChunkSize

IBNext ==
    \/ bin2blob_process
    \/ blob2wired_process
    \/ blob2wired_chunk
    \/ blob2wired_end
    \/ blob2wired_return

SpecIB == Init /\ [][IBNext]_vars

\* blob2wired_process ran to its end on a split it accepts
WiredBlobWritten ==
    /\ ib_pc = "done"
    /\ ib_opt.split > 0
    /\ ib_opt.split % FLASH_PAGE_SIZE = 0

\* len() of the padded file blob2wired_process splits
WiredInputLen == Ceil(ib_opt.app, 4) * 4

\* every chunk is a 96-byte header and a body, at most maxUpdate bytes
ChunksWithinMaxUpdate ==
    \A i \in 1..Len(ib_out) :
       /\ ib_out[i].len = 96 + ib_out[i].size
       /\ ib_out[i].len <= 96 + ib_opt.split

\* each chunk's load address is that of the chunk before plus split
LoadAddressesAdvance ==
    \A i \in 2..Len(ib_out) :
       ib_out[i].loadaddress = ib_out[i - 1].loadaddress + ib_opt.split

\* C22 as stated: for a split that is a positive multiple of
\* FLASH_PAGE_SIZE the blob has exactly ceil((header + padded_app) /
\* maxUpdate) chunks, maxUpdate = 96 + split (header read as the 128 bytes
\* of the OTA header, as the 96 bytes of the chunk header, or as part of
\* the padded input already), each chunk at most maxUpdate bytes, each
\* load address the one before plus split.
C22_ChunkCountByMaxUpdate ==
    WiredBlobWritten =>
       /\ Len(ib_out) \in {Ceil(h + WiredInputLen, 96 + ib_opt.split) :
                             h \in {0, 96, 128}}
       /\ ChunksWithinMaxUpdate
       /\ LoadAddressesAdvance

\* C22 as amended: the blob has exactly ceil(padded input / split) chunks:
\* the bodies are consecutive ranges of the padded input of at most split
\* bytes, all but the last of split bytes; each chunk is its 96-byte
\* header and its body, at most maxUpdate bytes; each load address is the
\* one before plus split, the first the wired load address, and the
\* header holds it (divided by 4 for the image type INFO0_NOOTA).
C22_ChunkCountBySplit ==
    WiredBlobWritten =>
       /\ Len(ib_out) = Ceil(WiredInputLen, ib_opt.split)
       /\ ChunksWithinMaxUpdate
       /\ LoadAddressesAdvance
       /\ \A i \in 1..Len(ib_out) :
             /\ ib_out[i].lo = (i - 1) * ib_opt.split
             /\ ib_out[i].hi = Min(i * ib_opt.split, WiredInputLen)
             /\ ib_out[i].size = ib_out[i].hi - ib_out[i].lo
             /\ ib_out[i].loadaddress =
                   ib_opt.load_address_wired + (i - 1) * ib_opt.split
             /\ ib_out[i].addr =
                   IF ib_opt.image_type = 32
                   THEN Bits(ib_out[i].loadaddress \div 4)
                   ELSE Bits(ib_out[i].loadaddress)

\* a file 4 bytes longer than two splits was written as three chunks
C22_Witness ==
    /\ WiredBlobWritten
    /\ ib_opt.split = FLASH_PAGE_SIZE
    /\ WiredInputLen = 2 * FLASH_PAGE_SIZE + 4
    /\ Len(ib_out) = 3
    /\ ib_out[3].size = 4

\* bin2blob_process built a header from the input of C23: a file of the 4
\* bytes 0, 1, 2, 3, load address 0x20000, magic number 0xCB,
\* authentication and encryption off
C23_Input ==
    /\ ib_hdr # << >>
    /\ ib_opt.app = 4
    /\ ib_opt.load_address_blob = 131072
    /\ ib_opt.magic_num = 203
    /\ ib_opt.authI = 0 /\ ib_opt.authB = 0
    /\ ib_opt.authalgo = 0 /\ ib_opt.encalgo = 0

\* the other options are as the program sets them
OtherOptionsAsSet ==
    /\ ib_opt.crcI = 1 /\ ib_opt.crcB = 0
    /\ ib_opt.authkey = 8 /\ ib_opt.kek = 8
    /\ ib_opt.protection = 0 /\ ib_opt.version = 0 /\ ib_opt.erasePrev = 0

\* C23 as stated: for that input, with the other options as the program
\* sets them, the header has w0 = 0xCB000084 at offset 0, w2 = 0 at
\* offset 8, addrWord = 0x00020000 at 112, versionKeyWord = 0 at 116 and
\* child0 = child1 = 0xFFFFFFFF at 120 and 124.
C23_HeaderW2Zero ==
    (C23_Input /\ OtherOptionsAsSet) =>
       /\ ib_hdr[0] = Hex32(51968, 132)
       /\ ib_hdr[8] = Hex32(0, 0)
       /\ ib_hdr[112] = Hex32(2, 0)
       /\ ib_hdr[116] = Hex32(0, 0)
       /\ ib_hdr[120] = Hex32(65535, 65535)
       /\ ib_hdr[124] = Hex32(65535, 65535)

\* C23 as amended: for that input the header has w0 = 0xCB000084,
\* child0 = child1 = 0xFFFFFFFF, addrWord = 0x00020000 | protection and
\* versionKeyWord = version | erasePrev << 15 (0x00020000 and 0 with the
\* options as the program sets them), and w2 holds the CRC flags and the
\* key indices also when authentication and encryption are off:
\* w2 = crcI << 28 | crcB << 24 | kek << 12 | authkey << 4, which is
\* 0x10008080 with the options as the program sets them and 0 only when
\* both CRC flags and both key indices are 0. The header is 128 bytes and
\* w1 is the CRC32 of its bytes 8..128 followed by the padded file.
C23_HeaderW2Flags ==
    C23_Input =>
       /\ DOMAIN ib_hdr = {4 * k : k \in 0..31}
       /\ ib_hdr[0] = Hex32(51968, 132)
       /\ ib_hdr[8] = Hex32(4096 * ib_opt.crcI + 256 * ib_opt.crcB,
                            4096 * ib_opt.kek + 16 * ib_opt.authkey)
       /\ ib_hdr[112] = Hex32(2, ib_opt.protection)
       /\ ib_hdr[116] = Hex32(0, ib_opt.version + 32768 * ib_opt.erasePrev)
       /\ ib_hdr[120] = Hex32(65535, 65535)
       /\ ib_hdr[124] = Hex32(65535, 65535)
       /\ ib_w1 = [from |-> 8, to |-> 128, app |-> 4]
       /\ OtherOptionsAsSet =>
             /\ ib_hdr[8] = Hex32(4096, 32896)
             /\ ib_hdr[112] = Hex32(2, 0)
             /\ ib_hdr[116] = Hex32(0, 0)
       /\ ib_hdr[8] = Hex32(0, 0) <=>
             /\ ib_opt.crcI = 0 /\ ib_opt.crcB = 0
             /\ ib_opt.authkey = 0 /\ ib_opt.kek = 0

\* the header was built from the input of C23 with the options as the
\* program sets them
C23_Witness ==
    /\ C23_Input
    /\ OtherOptionsAsSet
    /\ ib_opt = default_options
    /\ ib_pc = "blob2wired"

PKNext ==
    \/ crc_of_frame
    \/ crc_of_frame_and_crc
    \/ packet_sent
    \/ packet_received
    \/ packet_layer_return

SpecPK == Init /\ [][PKNext]_vars

\* C25: for all byte sequences F, get_crc16 of F followed by the two
\* big-endian bytes of get_crc16(F) is 0.
C25_CrcOfFrameAndCrcIsZero ==
    pk_pc = "residue" =>
       /\ pk_crc \in 0..65535
       /\ pk_residue = 0

\* the residue was computed for a frame of the longest kind whose CRC has
\* two different bytes, neither of them 0
C25_Witness ==
    /\ pk_pc = "residue"
    /\ Len(pk_frame) = MaxDataLen + 1
    /\ pk_crc \div 256 # pk_crc % 256
    /\ pk_crc \div 256 # 0
    /\ pk_crc % 256 # 0
    /\ pk_residue = 0

\* C26: for every cmd and data, the bytes send_packet(cmd, data) writes
\* begin with 3 + len(data) as a big-endian 16-bit number, and
\* wait_for_packet fed with those bytes returns timeout 0, crc 0, the same
\* cmd and the same data.
C26_PacketRoundTrip ==
    /\ pk_pc \in {"sent", "received"} =>
          /\ Len(pk_wire) = 2 + 3 + Len(pk_data)
          /\ pk_wire[1] = (3 + Len(pk_data)) \div 256
          /\ pk_wire[2] = (3 + Len(pk_data)) % 256
    /\ (pk_pc = "received" /\ pk_read = Len(pk_wire)) =>
          /\ pk_packet.timeout = 0
          /\ pk_packet.crc = 0
          /\ pk_packet.cmd = pk_cmd
          /\ pk_packet.data = pk_data
          /\ pk_packet.len = 3 + Len(pk_data)

\* a packet with the longest data was written and read back whole
C26_Witness ==
    /\ pk_pc = "received"
    /\ pk_read = Len(pk_wire)
    /\ Len(pk_data) = MaxDataLen
    /\ pk_cmd = SVL_CMD_FRAME
    /\ pk_packet.timeout = 0

\* get_crc16 was called on the two bytes 0x01, 0x00
C27_Input == pk_pc \in {"crc", "residue"} /\ pk_frame = <<1, 0>>

\* C27 as stated: get_crc16 of the two bytes 0x01, 0x00, from the initial
\* value 0 and with the table of the program, is 0x8463.
C27_Crc8463 == C27_Input => pk_crc = 33891

\* C27 as amended: get_crc16 of the two bytes 0x01, 0x00 is 0x8603 (0x8005,
\* entry 1 of the table, after the first byte); the table is that of the
\* polynomial 0x8005: entry 1 is 0x8005 and entry 2 * i is entry i shifted
\* left by one bit, with 0x8005 added in where a 1 bit is shifted out.
C27_Crc8603 ==
    /\ (pk_pc = "crc" /\ pk_frame = <<1>>) => pk_crc = 32773
    /\ C27_Input =>
          /\ pk_crc = 34307
          /\ Len(crcTable) = 256
          /\ crcTable[1] = 0 /\ crcTable[2] = 32773
          /\ \A i \in 1..127 :
                /\ crcTable[2 * i + 1] =
                      IF crcTable[i + 1] >= 32768
                      THEN Xor((2 * crcTable[i + 1]) % 65536, 32773)
                      ELSE 2 * crcTable[i + 1]
                /\ crcTable[2 * i + 2] = Xor(crcTable[2 * i + 1], 32773)

\* the CRC of the two bytes has been computed
C27_Witness == C27_Input /\ pk_pc = "crc"

WKNext ==
    \/ on_upload_btn_pressed
    \/ on_update_bootloader_btn_pressed
    \/ add_job
    \/ on_finished
    \/ closeEvent
    \/ process_loop_start
    \/ process_loop_test
    \/ process_loop_get
    \/ dispatch_job
    \/ run_job_prints
    \/ run_job_ends
    \/ finished_callback

SpecWK == Init /\ [][WKNext]_vars

\* the places in wk_trace of the entries of kind k of the job with id j
TraceIdx(k, j) ==
    {i \in 1..Len(wk_trace) : wk_trace[i].k = k /\ wk_trace[i].job_id = j}

\* the job with id j as it was put in the queue
AddedJob(j) == wk_added[CHOOSE n \in 1..Len(wk_added) : wk_added[n].job_id = j]

\* the worker has taken the job with id j from the queue
Taken(j) ==
    /\ \E n \in 1..Len(wk_added) : wk_added[n].job_id = j
    /\ \A n \in 1..Len(wk_queue) : wk_queue[n].job_id # j

\* the worker is between taking the job with id j and telling that it is
\* finished
InHand(j) ==
    wk_job.job_id = j /\ wk_pc \in {"dispatch", "run_job", "finished"}

\* the thread ended in the job with id j
DiedIn(j) == wk_job.job_id = j /\ wk_pc = "dead"

\* the TYPE_FINISHED events of the jobs: at most one for a job, with the
\* job's action_id and job_id, after the end of every run_job of the job,
\* and one for every job taken, once the worker has it in hand no more
\* (Lost(j) excepted)
FinishedEvents(Lost(_)) ==
    \A j \in 1..(next_job_id - 1) :
       LET fin == TraceIdx("finished", j)
       IN  /\ Cardinality(fin) <= 1
           /\ \A i \in fin :
                 /\ wk_trace[i].type = TYPE_FINISHED
                 /\ wk_trace[i].action_id = AddedJob(j).action_id
                 /\ Taken(j)
                 /\ \A s \in TraceIdx("run_job", j) :
                       \E e \in TraceIdx("ended", j) : s < e /\ e < i
           /\ (Taken(j) /\ ~InHand(j) /\ ~Lost(j)) => Cardinality(fin) = 1

NoneLost(j) == FALSE

\* C28: for every job the worker takes from the queue the callback gets
\* exactly one TYPE_FINISHED event with the job's action_id and job_id,
\* after the job's run_job has ended, whether run_job returned, left by
\* SystemExit or left by another exception.
C28_FinishedForEveryJob == FinishedEvents(NoneLost)

\* what is said in C28 holds of every job but one whose run_job left by
\* an exception other than SystemExit
FinishedUnlessDied == FinishedEvents(DiedIn)

\* the jobs run_job was called for, in the order of the calls
Started == SelectSeq(wk_trace, LAMBDA e : e.k = "run_job")

\* the jobs put in the queue for an action that is registered
Runnable == SelectSeq(wk_added, LAMBDA job : job.action_id \in registered_actions)

PosAdded(j) == CHOOSE n \in 1..Len(wk_added) : wk_added[n].job_id = j

\* C29: the worker runs the jobs one at a time, in the order they were
\* added: run_job is called for the jobs in the order of the add_job calls,
\* at most once for each, and never before the run_job called before it
\* has ended; whatever the worker does for a job, it does after all it
\* does for the jobs added earlier.
C29_OneJobAtATime ==
    /\ Len(Started) <= Len(Runnable)
    /\ \A n \in 1..Len(Started) : Started[n].job_id = Runnable[n].job_id
    /\ \A i \in 1..(Len(wk_trace) - 1) :
          PosAdded(wk_trace[i].job_id) <= PosAdded(wk_trace[i + 1].job_id)
    /\ \A j \in 1..(next_job_id - 1) : \A s \in TraceIdx("run_job", j) :
          \A t \in (s + 1)..Len(wk_trace) :
             wk_trace[t].k = "run_job"
                => \E e \in TraceIdx("ended", j) : s < e /\ e < t
    /\ \A j \in 1..(next_job_id - 1) :
          /\ Cardinality(TraceIdx("run_job", j)) <= 1
          /\ Cardinality(TraceIdx("ended", j))
                = IF wk_pc = "run_job" /\ wk_job.job_id = j
                  THEN 0
                  ELSE Cardinality(TraceIdx("run_job", j))
    /\ wk_pc = "run_job" =>
          /\ Len(Started) > 0
          /\ Started[Len(Started)].job_id = wk_job.job_id

\* two jobs were in the queue together, and the second of them runs after
\* the first has ended
C29_Witness ==
    /\ wk_pc = "run_job"
    /\ wk_job.job_id = 2
    /\ TraceIdx("ended", 1) # {}
    /\ TraceIdx("finished", 1) # {}
    /\ \A i \in TraceIdx("message", 1) : wk_trace[i].val # "Unknown job type. Aborting"

\* a press of one of the two buttons that found the port gone or the file
\* missing
RejectedPress ==
    /\ gui_press' # gui_press
    /\ ~(gui_press'.port /\ gui_press'.file)

\* C30: a button press that finds the port no longer enumerated, or the
\* file missing, adds no job to the queue, leaves the interface enabled,
\* and starts no serial I/O: the worker is where it was and nothing else
\* of the program moves.
C30_RejectedPressAddsNothing ==
    [][RejectedPress =>
         /\ wk_queue' = wk_queue
         /\ wk_added' = wk_added
         /\ next_job_id' = next_job_id
         /\ gui_disabled = FALSE
         /\ gui_disabled' = FALSE
         /\ wk_pc' = wk_pc
         /\ wk_trace' = wk_trace
         /\ gui_signals' = gui_signals
         /\ UNCHANGED not_wk_vars]_vars

\* the bootloader button was pressed with the port there and the file
\* missing, before any job
C30_Witness ==
    /\ gui_press = [btn |-> "bootloader", port |-> TRUE, file |-> FALSE]
    /\ wk_added = << >>
    /\ wk_queue = << >>
    /\ gui_disabled = FALSE
    /\ wk_pc = "loop"

\* ------------------------------------------------------------------
\* SVL properties, continued
\* ------------------------------------------------------------------

\* the attempt whose packets are in wire was reported as not failed
SucceededAttempt ==
    \/ LoopOver /\ bl_failed = FALSE
    \/ /\ pc = "returned"
       /\ Len(results) > 0
       /\ results[Len(results)] = FALSE

\* the index of the frame a FRAME packet carries, 0 for an empty payload
FrameIndex(e) == IF e.hi > e.lo THEN e.lo \div frame_size + 1 ELSE 0

\* C31: an attempt is reported as a success only if a DONE packet was
\* sent in it, before that DONE every frame 1..total_frames was sent at
\* least once, the frames in non-decreasing index order, and every packet
\* received in the attempt's bootload phase was not timed out, CRC-valid
\* and a NEXT or a RETRY.
C31_SuccessMeansTransferred ==
    SucceededAttempt =>
       /\ Len(BootTx) > 0
       /\ IsDone(BootTx[Len(BootTx)])
       /\ \A i \in 1..(Len(BootTx) - 1) : BootTx[i].cmd = SVL_CMD_FRAME
       /\ total_frames = Ceil(total_len, frame_size)
       /\ \A k \in 1..total_frames :
             \E i \in 1..(Len(BootTx) - 1) : BootTx[i] = ExpectedTx(k)
       /\ \A i \in 1..(Len(BootTx) - 2) :
             FrameIndex(BootTx[i]) <= FrameIndex(BootTx[i + 1])
       /\ \A i \in 1..Len(BootRx) :
             /\ Valid(BootRx[i])
             /\ BootRx[i].cmd \in {SVL_CMD_NEXT, SVL_CMD_RETRY}

\* an image of two frames went through in an attempt with a RETRY
C31_Witness ==
    /\ pc = "returned"
    /\ SucceededAttempt
    /\ total_frames = 2
    /\ NumRetries >= 1
    /\ Len(BootTx) >= 4

\* C32: every FRAME packet the host sends carries the bytes
\* image[(k-1)*2048, min(k*2048, L)) of a frame k, 1 <= k <= total_frames:
\* no FRAME has an empty payload or a frame index outside that range, also
\* when a RETRY, a corrupt packet or a timeout comes before the first NEXT.
C32_FramesCarryImage ==
    \A i \in 1..Len(wire) :
       (wire[i].dir = "tx" /\ wire[i].cmd = SVL_CMD_FRAME) =>
          /\ wire[i].hi > wire[i].lo
          /\ \E k \in 1..Ceil(total_len, frame_size) : wire[i] = ExpectedTx(k)

\* what C32 says holds of the FRAME packets sent once a NEXT has come
FramesAfterNextCarryImage ==
    \A i \in 1..Len(BootTx) :
       (/\ BootTx[i].cmd = SVL_CMD_FRAME
        /\ \E j \in 1..i : BootRx[j].cmd = SVL_CMD_NEXT) =>
          \E k \in 1..Ceil(total_len, frame_size) : BootTx[i] = ExpectedTx(k)

\* the n-th packet of the bootload phase is a RETRY that leaves
\* resend_count below resend_max
RetryBelowCap(n) ==
    /\ BootRx[n].cmd = SVL_CMD_RETRY
    /\ \E k \in Max(1, n - resend_max + 1)..n : BootRx[k].cmd # SVL_CMD_RETRY

\* the packets of a pass of the while loop come in pairs, and the RETRY of
\* pass n, below the cap, is answered with the packet of the pass before
RetryResendsLast ==
    /\ Len(BootRx) = Len(BootTx)
    /\ \A n \in 2..Len(BootRx) :
          RetryBelowCap(n) =>
             /\ BootTx[n].cmd = SVL_CMD_FRAME
             /\ BootTx[n] = BootTx[n - 1]

\* a step of the while loop that changes curr_frame has read a NEXT and
\* adds one; the only other change is the reset to 0 at the start of an
\* attempt
CurrFrameStep ==
    curr_frame' # curr_frame =>
       \/ /\ pc = "while" /\ pc' = "while"
          /\ curr_frame' = curr_frame + 1
          /\ Len(wire') = Len(wire) + 2
          /\ wire'[Len(wire) + 1].dir = "rx"
          /\ wire'[Len(wire) + 1].cmd = SVL_CMD_NEXT
       \/ /\ pc # "while"
          /\ curr_frame' = 0

\* C33: on a RETRY below the cap the host sends again the frame it sent
\* last, with the same index and payload; curr_frame changes only on a
\* NEXT, by exactly +1, and never decreases within an attempt.
C33_RetryResendsNextAdvances ==
    []RetryResendsLast /\ [][CurrFrameStep]_vars

\* the second frame was sent again on a RETRY, and the attempt went on
C33_Witness ==
    /\ pc = "while"
    /\ Len(BootRx) >= 4
    /\ BootRx[2].cmd = SVL_CMD_NEXT
    /\ RetryBelowCap(3)
    /\ BootTx[3] = ExpectedTx(2)
    /\ BootTx[2] = ExpectedTx(2)
    /\ BootRx[4].cmd = SVL_CMD_NEXT
    /\ curr_frame = 3

(***************************************************************************)
(* The wired update as a whole                                             *)
(***************************************************************************)
\* updater has reported "Upload complete!"; wu_wire holds the messages of
\* the attempt that succeeded
ReportsSuccess == wu_pc = "returned" /\ wu_result = "complete"

\* the DATA messages of this attempt
DataMsgs == SelectSeq(wu_wire, IsData)

\* success is reported only with the blob transferred: there is a blob,
\* its bytes went out in DATA messages, each inside the range of the
\* UPDATE before it, and every UPDATE and DATA counts as acknowledged by
\* Ok
Transferred(Ok(_)) ==
    ReportsSuccess =>
       /\ uploadbinfile
       /\ totalLen > 0
       /\ SumLen(DataMsgs) = totalLen
       /\ SumLen(Updates) = totalLen
       /\ \A i \in 1..Len(wu_wire) :
             IsData(wu_wire[i]) =>
                /\ UpdateOf(i) > 0
                /\ wu_wire[UpdateOf(i)].lo <= wu_wire[i].lo
                /\ wu_wire[i].hi <= wu_wire[UpdateOf(i)].hi
       /\ \A i \in 1..Len(wu_wire) :
             (IsUpdate(wu_wire[i]) \/ IsData(wu_wire[i])) => Ok(wu_wire[i])

\* C34: update_bootloader reports success only if, within one attempt,
\* every byte of the wired-update blob was sent in DATA messages that
\* follow their UPDATE and every UPDATE and DATA was ACKed with SUCCESS;
\* success is never reported without the image transferred.
C34_SuccessMeansTransferred == Transferred(Acked)

\* with a blob written by blob2wired_process, success is reported only
\* after all its bytes went out and send_ackd_command reported success for
\* every UPDATE and DATA
TransferredWhenAccepted ==
    uploadbinfile => Transferred(Accepted)

\* the offset of chunk k in the file of the wired-update blob
ChunkStart(k) == file_len(SubSeq(wired_blob, 1, k - 1))

\* connect_device got as far as splitting the blob that blob2wired_process
\* wrote with a split it accepts
SplitsWiredBlob ==
    /\ uploadbinfile
    /\ ~blob2wired_rejects(split)
    /\ split > 0
    /\ wu_pc \notin {"idle", "updater"}

\* C35: for a split that is a multiple of FLASH_PAGE_SIZE the updates
\* connect_device sends coincide with the chunks blob2wired_process wrote:
\* the byte range of each UPDATE starts at the 96-byte header of a chunk
\* and is that header and the chunk's body, and the number of updates is
\* the number of chunks.
C35_UpdatesAreChunks ==
    SplitsWiredBlob =>
       /\ totalLen = file_len(wired_blob)
       /\ UpdatesNeeded = Len(wired_blob)
       /\ \A i \in 1..Len(Updates) :
             LET k == Len(wired_blob) - i + 1
             IN  /\ k >= 1
                 /\ Updates[i].lo = ChunkStart(k)
                 /\ Updates[i].hi - Updates[i].lo
                       = AM_WU_IMAGEHDR_SIZE + wired_blob[k].size
                 /\ wired_blob[k].len = Updates[i].arg
       /\ UpdatesDone => Len(Updates) = Len(wired_blob)
       /\ wu_pc \in {"update", "data"} => numUpdates <= Len(wired_blob)

\* a blob of MaxUpdates chunks, the last of 4 bytes, went out in as many
\* updates
C35_Witness ==
    /\ SplitsWiredBlob
    /\ UpdatesDone
    /\ Len(wired_blob) = MaxUpdates
    /\ wired_blob[MaxUpdates].size = 4
    /\ Len(Updates) = MaxUpdates
    /\ Updates[1].hi - Updates[1].lo = AM_WU_IMAGEHDR_SIZE + 4

\* the blob sizes of the model are those of the files blob2wired_process
\* writes
BlobLensAreFileLens ==
    BlobLens = {file_len(f) : f \in WiredFiles[FLASH_PAGE_SIZE]}

\* the worker thread is scheduled again and again, and a run_job that was
\* started comes to an end
FairSpecWK ==
    /\ SpecWK
    /\ WF_vars(process_loop_start)
    /\ WF_vars(process_loop_test)
    /\ WF_vars(process_loop_get)
    /\ WF_vars(dispatch_job)
    /\ WF_vars(run_job_ends)
    /\ WF_vars(finished_callback)

\* shutdown() was called on the worker (closeEvent is its caller)
ShutdownCalled == gui_closed

\* the thread is out of the loop of process_loop
LoopLeft == wk_pc \in {"exited", "dead"}

\* C36: once shutdown() was called, at any moment, also right after the
\* construction of the worker and before its thread has begun
\* process_loop, the thread eventually leaves its loop.
C36_ShutdownLeavesLoop == ShutdownCalled ~> LoopLeft

\* a shutdown() called once the thread is in process_loop makes it leave
ShutdownInLoopLeaves ==
    (ShutdownCalled /\ wk_shutdown /\ wk_pc # "start") ~> LoopLeft

\* the callbacks of kind k, in the order of the calls
Callbacks(k) == SelectSeq(wk_trace, LAMBDA e : e.k = k)

\* C37: all TYPE_MESSAGE callbacks made while a job is dispatched come
\* before the TYPE_FINISHED callback of that job, and the messages of two
\* jobs never interleave: the messages of a job are one run of the
\* sequence of messages.
C37_MessagesBeforeFinished ==
    /\ \A j \in 1..(next_job_id - 1) :
          \A f \in TraceIdx("finished", j) :
             \A m \in TraceIdx("message", j) :
                m < f /\ wk_trace[m].type = TYPE_MESSAGE
    /\ LET msgs == Callbacks("message")
       IN  \A i \in 1..(Len(msgs) - 1) :
              msgs[i].job_id # msgs[i + 1].job_id =>
                 \A k \in (i + 1)..Len(msgs) : msgs[k].job_id # msgs[i].job_id
    /\ \A i \in 1..Len(wk_trace) :
          wk_trace[i].k = "message" =>
             /\ wk_trace[i].job_id >= 1
             /\ \A f \in TraceIdx("finished", wk_trace[i].job_id) : i < f

\* two jobs have finished, each after the messages of its header and a
\* line it printed, the first also after "Complete."
C37_Witness ==
    /\ TraceIdx("finished", 1) # {}
    /\ TraceIdx("finished", 2) # {}
    /\ \A j \in {1, 2} :
          \E m \in TraceIdx("message", j) : wk_trace[m].val = "print"
    /\ \E m \in TraceIdx("message", 1) : wk_trace[m].val = "Complete."

\* the script of the job came to its end: it returned, or it called
\* exit() (dispatch_job reports "Complete.")
CompletedOutcomes == {"return", "SystemExit"}

\* the status of TYPE_FINISHED for the jobs of the actions in Which: 0 if
\* and only if the script run for the job came to its end
StatusOf(Which) ==
    \A j \in 1..(next_job_id - 1) :
       \A f \in TraceIdx("finished", j) :
          wk_trace[f].action_id \in Which =>
             /\ TraceIdx("ended", j) # {}
             /\ wk_trace[f].status = 0
                   <=> \A e \in TraceIdx("ended", j) :
                          wk_trace[e].val \in CompletedOutcomes

\* a job of an action that is not registered is not run and finishes with
\* a status other than 0
UnknownJobNotRun ==
    \A j \in 1..(next_job_id - 1) :
       \A f \in TraceIdx("finished", j) :
          wk_trace[f].action_id \notin registered_actions =>
             /\ TraceIdx("run_job", j) = {}
             /\ wk_trace[f].status # 0

\* C38: the status delivered with TYPE_FINISHED is 0 if and only if the
\* job's operation completed successfully, for the firmware upload and for
\* the bootloader burn, also when the script ends by calling exit(); a job
\* with an action_id that is not registered is not run and finishes with a
\* status other than 0.
C38_StatusZeroIffSuccess ==
    /\ StatusOf(registered_actions)
    /\ UnknownJobNotRun

\* for the firmware upload the status is 0 when upload_firmware returned
\* and 1 when it raised an Exception
UploadStatusWithoutExit ==
    \A j \in 1..(next_job_id - 1) :
       \A f \in TraceIdx("finished", j) :
          wk_trace[f].action_id = UPLOAD_FIRMWARE =>
             \A e \in TraceIdx("ended", j) :
                /\ wk_trace[e].val = "return" => wk_trace[f].status = 0
                /\ wk_trace[e].val = "exception" => wk_trace[f].status = 1

====
